---- MODULE Spec2Model ----
(***************************************************************************)
(* The task pipeline of adk-service/simple_adk_service.py:                 *)
(* execute_task_with_tools (intent extraction, search, per-result fetch,   *)
(* insight analysis, report synthesis, e-mail dispatch, response record),  *)
(* with analyze_content_for_insights and generate_comprehensive_report.    *)
(*                                                                         *)
(* Text is modelled as a sequence of one-character strings, so that the    *)
(* regular expressions and substring tests of the source are computed on   *)
(* the characters they read.  A list built from f-string parts (a report   *)
(* line, a subject, an insight entry) is a tuple whose parts are the       *)
(* literal of the source (a TLA+ string) and the interpolated text.        *)
(***************************************************************************)
EXTENDS Integers, Sequences, FiniteSets

----------------------------------------------------------------------------
(* Characters and the str / re primitives the source uses *)

\* The characters of the model are the code points below 256 whose upper and
\* lower case are code points below 256: all of them but the micro sign and
\* the y with diaeresis.  The cased letters among them, in pairs:
UpperChars == <<"A", "B", "C", "D", "E", "F", "G", "H", "I", "J", "K", "L", "M", "N", "O", "P", "Q", "R", "S", "T", "U", "V", "W", "X", "Y", "Z", "À", "Á", "Â", "Ã", "Ä", "Å", "Æ", "Ç", "È", "É", "Ê", "Ë", "Ì", "Í", "Î", "Ï", "Ð", "Ñ", "Ò", "Ó", "Ô", "Õ", "Ö", "Ø", "Ù", "Ú", "Û", "Ü", "Ý", "Þ">>
LowerChars == <<"a", "b", "c", "d", "e", "f", "g", "h", "i", "j", "k", "l", "m", "n", "o", "p", "q", "r", "s", "t", "u", "v", "w", "x", "y", "z", "à", "á", "â", "ã", "ä", "å", "æ", "ç", "è", "é", "ê", "ë", "ì", "í", "î", "ï", "ð", "ñ", "ò", "ó", "ô", "õ", "ö", "ø", "ù", "ú", "û", "ü", "ý", "þ">>

\* the characters str.isdigit() accepts
DigitChars == {"0", "1", "2", "3", "4", "5", "6", "7", "8", "9", "²", "³", "¹"}

\* \s of the re module, and the characters str.strip() removes: space, tab,
\* line feed, vertical tab, form feed, carriage return, the separators
\* 1C to 1F, next line (85) and the no-break space (A0)
WS == {" ", "\t", "\n", "", "\f", "\r",
       "", "", "", "", "", " "}

Range(f) == {f[i] : i \in DOMAIN f}

\* \w of the re module: the characters str.isalnum() accepts, and "_"
WordChars ==
    Range(UpperChars) \cup Range(LowerChars) \cup DigitChars
        \cup {"_", "ß", "ª", "º", "¼", "½", "¾"}

\* [\w\.-] , the character class of the address patterns
AddrChars == WordChars \cup {".", "-"}

Min(S) == CHOOSE x \in S : \A y \in S : x <= y
Max(S) == CHOOSE x \in S : \A y \in S : x >= y

\* the lower case of the upper-case letters, and the upper case of the
\* lower-case letters
ToLower == [c \in Range(UpperChars) |->
               LowerChars[CHOOSE i \in DOMAIN UpperChars : UpperChars[i] = c]]
ToUpper == [c \in Range(LowerChars) |->
               UpperChars[CHOOSE j \in DOMAIN LowerChars : LowerChars[j] = c]]

LowerOf(c) == IF c \in DOMAIN ToLower THEN ToLower[c] ELSE c

\* str.lower()
lower(s) == [i \in 1..Len(s) |-> LowerOf(s[i])]

\* the upper case of a character: a text, since that of the sharp s is "SS"
UpperOf(c) ==
    IF c \in DOMAIN ToUpper THEN << ToUpper[c] >>
    ELSE IF c = "ß" THEN <<"S", "S">>
    ELSE << c >>

\* str.upper()
RECURSIVE upper(_)
upper(s) == IF s = << >> THEN << >> ELSE UpperOf(Head(s)) \o upper(Tail(s))

\* str.strip()
strip(s) ==
    LET keep == {i \in 1..Len(s) : s[i] \notin WS}
    IN  IF keep = {} THEN << >> ELSE SubSeq(s, Min(keep), Max(keep))

\* the least / greatest element of a set of positions, 0 for the empty set
MinOr0(S) == IF S = {} THEN 0 ELSE Min(S)
MaxOr0(S) == IF S = {} THEN 0 ELSE Max(S)

\* the first entry of a sequence of positions that is not 0: the candidates
\* of a backtracking search are listed in the order the search tries them
FirstNonZero(xs) ==
    LET ok == {n \in DOMAIN xs : xs[n] # 0}
    IN  IF ok = {} THEN 0 ELSE xs[Min(ok)]

\* the literal w stands in s at position i
MatchAt(s, i, w) ==
    /\ i >= 1
    /\ i + Len(w) - 1 <= Len(s)
    /\ SubSeq(s, i, i + Len(w) - 1) = w

\* w in s
Contains(s, w) == \E i \in 1..(Len(s) - Len(w) + 1) : MatchAt(s, i, w)

\* any(k in s for k in ks)
ContainsAny(s, ks) == \E n \in DOMAIN ks : Contains(s, ks[n])

\* s[:n]
Take(s, n) == SubSeq(s, 1, IF Len(s) < n THEN Len(s) ELSE n)

\* length of the run of characters of class cls that starts at position i
RECURSIVE RunLen(_, _, _)
RunLen(s, i, cls) ==
    IF i >= 1 /\ i <= Len(s) /\ s[i] \in cls THEN 1 + RunLen(s, i + 1, cls) ELSE 0

\* $ without re.MULTILINE: the end of the text, or just before a final newline
AtEnd(s, p) == p = Len(s) + 1 \/ (p = Len(s) /\ s[p] = "\n")

\* no newline in s[a..b-1]: what .* and .*? may cross
NoNewline(s, a, b) == \A j \in a..(b - 1) : s[j] # "\n"

----------------------------------------------------------------------------
(* The address pattern [\w\.-]+@[\w\.-]+\.\w+ *)

\* The parses of  @[\w\.-]+\.\w+  with the @ at position at, the run of
\* address characters after it being dom long: the pairs <<d, e>>, d the
\* position of the dot that \. takes, e the end of \w+.
DomainParses(t, at, dom) ==
    {<<d, e>> \in ((at + 2)..(at + dom)) \X ((at + 3)..(at + dom)) :
        /\ t[d] = "."
        /\ e > d
        /\ e - d <= RunLen(t, d + 1, WordChars)}

LocalParses(t, at) ==
    IF at > Len(t) \/ t[at] # "@" THEN {}
    ELSE DomainParses(t, at, RunLen(t, at + 1, AddrChars))

\* The parses of the address pattern that start at position k.  The local
\* part is the whole run of address characters (it must be followed by @).
AddrParses(t, k) ==
    IF RunLen(t, k, AddrChars) = 0 THEN {}
    ELSE LocalParses(t, k + RunLen(t, k, AddrChars))

\* The end of the first parse in backtracking order (both parts greedy) among
\* the parses ok; 0 when there is none.
GreedyEnd(ok) ==
    IF ok = {} THEN 0
    ELSE LET d == Max({p[1] : p \in ok})
         IN  Max({p[2] : p \in {q \in ok : q[1] = d}})

\* end of the greedy match of the address pattern at k (nothing follows it)
AddrEnd(t, k) == GreedyEnd(AddrParses(t, k))

\* re.findall of the address pattern: the non-overlapping matches from left
\* to right, as <<start, end>> pairs
RECURSIVE AddrMatchesFrom(_, _)
AddrMatchesAt(t, k) ==
    IF k = 0 THEN << >>
    ELSE << <<k, AddrEnd(t, k)>> >> \o AddrMatchesFrom(t, AddrEnd(t, k) + 1)

AddrMatchesFrom(t, pos) ==
    AddrMatchesAt(t, MinOr0({k \in pos..Len(t) : AddrEnd(t, k) # 0}))

\* the email-like substrings of a text, in text order
SpanTexts(s, ms) == [n \in DOMAIN ms |-> SubSeq(s, ms[n][1], ms[n][2])]

EmailLike(s) == SpanTexts(s, AddrMatchesFrom(s, 1))

----------------------------------------------------------------------------
(* Parse task for email requirements:                                      *)
(* re.search(r'send.*?(?:to|result to)\s+([\w\.-]+@[\w\.-]+\.\w+)',        *)
(*           task_description.lower())                                     *)

ToWords == << <<"t", "o">>, <<"r", "e", "s", "u", "l", "t", " ", "t", "o">> >>

\* Start positions of the captured address that a match beginning with the
\* "send" at position i can reach.
SendCaptureStarts(t, i) ==
    {k \in (i + 4)..Len(t) :
        \E g \in (i + 4)..k : \E n \in DOMAIN ToWords :
            /\ NoNewline(t, i + 4, g)
            /\ MatchAt(t, g, ToWords[n])
            /\ k - (g + Len(ToWords[n])) >= 1
            /\ k - (g + Len(ToWords[n])) <= RunLen(t, g + Len(ToWords[n]), WS)
            /\ AddrEnd(t, k) # 0}

\* the address captured by the match that begins with the "send" at i;
\* .*? takes the nearest "to" after it that is followed by an address
SendCapture(t, i) ==
    IF i = 0 THEN << >>
    ELSE SubSeq(t, Min(SendCaptureStarts(t, i)), AddrEnd(t, Min(SendCaptureStarts(t, i))))

\* A faulty variant of SendMatch: the pattern  send.*?to\s+([\w\.-]+) , which
\* takes the word after "to" whether or not it is an address.
SendMatchAnyWord(t) ==
    LET ks == {k \in 1..Len(t) :
                 /\ RunLen(t, k, AddrChars) > 0
                 /\ \E i \in 1..k : \E g \in (i + 4)..k :
                       /\ MatchAt(t, i, <<"s", "e", "n", "d">>)
                       /\ NoNewline(t, i + 4, g)
                       /\ MatchAt(t, g, <<"t", "o">>)
                       /\ k - (g + 2) >= 1
                       /\ k - (g + 2) <= RunLen(t, g + 2, WS)}
    IN  IF ks = {} THEN << >>
        ELSE SubSeq(t, Min(ks), Min(ks) + RunLen(t, Min(ks), AddrChars) - 1)

\* group(1) of the match on the lower-cased text t, or << >> when the pattern
\* does not match.  The search takes the leftmost "send" that leads to a match.
SendMatch(t) ==
    SendCapture(t, MinOr0({i \in 1..Len(t) :
                             MatchAt(t, i, <<"s", "e", "n", "d">>) /\ SendCaptureStarts(t, i) # {}}))

email_match(task) == SendMatch(lower(task))

----------------------------------------------------------------------------
(* Clean the task description: remove email instructions                   *)
(*                                                                         *)
(* A match, starting exactly at position i, of                             *)
(*   \s*(?:pre)?(?:verb).*?(?:to|at)\s+[\w\.-]+@[\w\.-]+\.\w+.*?(?:\.|$)   *)
(* on the lower-cased text t (re.IGNORECASE); pres is empty when the       *)
(* pattern has no optional group.  Each operator below gives the position  *)
(* after the match of a tail of the pattern, 0 when the tail does not      *)
(* match.  Priority order of the backtracking search: \s* greedy, the      *)
(* optional group before its absence, alternatives in the order written,   *)
(* .*? lazy, \s+ greedy, the address greedy, the last .*? lazy.            *)

\* .*?(?:\.|$) can match after position e
ClauseCont(t, e) ==
    \E y \in (e + 1)..(Len(t) + 1) :
        NoNewline(t, e + 1, y) /\ ((y <= Len(t) /\ t[y] = ".") \/ AtEnd(t, y))

\* the position after (?:\.|$) matched at y
AfterStop(t, y) == IF y <= Len(t) /\ t[y] = "." THEN y + 1 ELSE y

\* position after the match of  .*?(?:\.|$)  that follows position e
ClauseStop(t, e) ==
    AfterStop(t, Min({z \in (e + 1)..(Len(t) + 1) :
                        NoNewline(t, e + 1, z) /\ ((z <= Len(t) /\ t[z] = ".") \/ AtEnd(t, z))}))

\* end of the address at k that .*?(?:\.|$) can follow
ClauseAddrEnd(t, k) == GreedyEnd({p \in AddrParses(t, k) : ClauseCont(t, p[2])})

StopAfterAddr(t, e) == IF e = 0 THEN 0 ELSE ClauseStop(t, e)

\* ADDRESS.*?(?:\.|$) from k
ClauseFromAddr(t, k) == StopAfterAddr(t, ClauseAddrEnd(t, k))

\* \s+ADDRESS.*?(?:\.|$) from b, where the run of whitespace is ws long
ClauseFromSpace(t, b, ws) ==
    FirstNonZero([j \in 1..ws |-> ClauseFromAddr(t, b + ws + 1 - j)])

AtWords == << <<"t", "o">>, <<"a", "t">> >>

\* (?:to|at)\s+ADDRESS.*?(?:\.|$) from g
ClauseFromWord(t, g) ==
    FirstNonZero([n \in DOMAIN AtWords |->
        IF MatchAt(t, g, AtWords[n])
        THEN ClauseFromSpace(t, g + Len(AtWords[n]), RunLen(t, g + Len(AtWords[n]), WS))
        ELSE 0])

\* .*?(?:to|at)\s+ADDRESS.*?(?:\.|$) from a
ClauseTailEnd(t, a) ==
    FirstNonZero([j \in 1..(Len(t) - a + 1) |->
        IF NoNewline(t, a, a + j - 1) THEN ClauseFromWord(t, a + j - 1) ELSE 0])

\* the heads in priority order: each optional prefix with each verb, then
\* the verbs alone
Heads(pres, verbs) ==
    IF pres = << >> THEN verbs
    ELSE [n \in 1..(Len(pres) * Len(verbs)) |->
            pres[((n - 1) \div Len(verbs)) + 1] \o verbs[((n - 1) % Len(verbs)) + 1]]
         \o verbs

\* (?:pre)?(?:verb) and the rest of the pattern from p
ClauseFromHead(t, p, heads) ==
    FirstNonZero([n \in DOMAIN heads |->
        IF MatchAt(t, p, heads[n]) THEN ClauseTailEnd(t, p + Len(heads[n])) ELSE 0])

\* the whole pattern from i, where the run of whitespace at i is ws long
ClauseFromStart(t, i, ws, heads) ==
    FirstNonZero([j \in 1..(ws + 1) |-> ClauseFromHead(t, i + ws + 1 - j, heads)])

ClauseEndAt(t, i, pres, verbs) ==
    ClauseFromStart(t, i, RunLen(t, i, WS), Heads(pres, verbs))

\* re.sub(pattern, '', s, flags=re.IGNORECASE): every non-overlapping match,
\* leftmost first, is removed; i is the start of the next match from pos
RECURSIVE RemoveClauses(_, _, _, _, _)
RemoveFrom(s, t, pos, i, pres, verbs) ==
    IF i = 0 THEN SubSeq(s, pos, Len(s))
    ELSE SubSeq(s, pos, i - 1) \o RemoveClauses(s, t, ClauseEndAt(t, i, pres, verbs), pres, verbs)

RemoveClauses(s, t, pos, pres, verbs) ==
    RemoveFrom(s, t, pos, MinOr0({i \in pos..Len(t) : ClauseEndAt(t, i, pres, verbs) # 0}),
               pres, verbs)

sub_clauses(s, pres, verbs) == RemoveClauses(s, lower(s), 1, pres, verbs)

DeliveryVerbs == << <<"s", "e", "n", "d">>, <<"e", "m", "a", "i", "l">>, <<"m", "a", "i", "l">> >>
SendPrefixes  == << <<"r", "e", "s", "e", "a", "r", "c", "h", " ", "a", "n", "d", " ">>, <<"a", "n", "d", " ", "r", "e", "s", "e", "a", "r", "c", "h", " ">>, <<"a", "n", "d", " ">> >>
SendVerb      == << <<"s", "e", "n", "d">> >>

QuestionPrefixes ==
    << <<"w", "h", "a", "t", " ", "a", "r", "e", " ", "t", "h", "e">>, <<"w", "h", "a", "t", " ", "i", "s", " ", "t", "h", "e">>, <<"w", "h", "a", "t", " ", "a", "r", "e">>, <<"w", "h", "a", "t", " ", "i", "s">>,
       <<"h", "o", "w", " ", "t", "o">>, <<"h", "o", "w", " ", "d", "o">>, <<"c", "a", "n", " ", "y", "o", "u">>, <<"p", "l", "e", "a", "s", "e">> >>
ConductPrefixes == << <<"c", "o", "n", "d", "u", "c", "t", " ", "a">>, <<"p", "e", "r", "f", "o", "r", "m", " ", "a">>, <<"d", "o", " ", "a">>, <<"m", "a", "k", "e", " ", "a">> >>

\* s without the prefix p and the whitespace after it
DropPrefix(s, p) == SubSeq(s, Len(p) + RunLen(s, Len(p) + 1, WS) + 1, Len(s))

\* re.sub(r'^(?:p1|p2|...)\s+', '', s, flags=re.IGNORECASE)
StripPrefix(s, prefixes) ==
    LET ok == {n \in DOMAIN prefixes :
                 MatchAt(lower(s), 1, prefixes[n]) /\ RunLen(s, Len(prefixes[n]) + 1, WS) >= 1}
    IN  IF ok = {} THEN s ELSE DropPrefix(s, prefixes[Min(ok)])

\* the working copy of the task text used for query derivation
clean_task(task) ==
    LET c1 == sub_clauses(task, << >>, DeliveryVerbs)
        c2 == strip(sub_clauses(c1, SendPrefixes, SendVerb))
        c3 == StripPrefix(c2, QuestionPrefixes)
    IN  strip(StripPrefix(c3, ConductPrefixes))

----------------------------------------------------------------------------
(* The extraction patterns: lead, gap, middle word, \s+, a lazy capture    *)
(* ([^.?]+?) and a terminator.  All are searched with re.IGNORECASE, so    *)
(* literals are matched on the lower-cased text t and the capture is cut   *)
(* from the original s.  Each operator gives the result of a tail of the   *)
(* pattern; the candidates are listed in the order the backtracking search *)
(* tries them and the first that matches is the result.                    *)

StopChars == {".", "?"}

\* terminators: a literal, \s+ followed by a literal, or $
Lit(w)   == [kind |-> "lit", text |-> w]
WsLit(w) == [kind |-> "ws", text |-> w]
EndT     == [kind |-> "end", text |-> << >>]

TermAt(t, p, term) ==
    CASE term.kind = "lit" -> MatchAt(t, p, term.text)
      [] term.kind = "ws"  -> \E w \in 1..RunLen(t, p, WS) : MatchAt(t, p + w, term.text)
      [] term.kind = "end" -> AtEnd(t, p)

\* end of the lazy capture ([^stops]+?) that starts at k: the first position e
\* with a terminator right after it; 0 when the capture cannot match
CapEnd(t, k, stops, terms) ==
    MinOr0({e \in k..(k + RunLen(t, k, Range(t) \ stops) - 1) :
              \E n \in DOMAIN terms : TermAt(t, e + 1, terms[n])})

NoMatch == [found |-> FALSE, text |-> << >>]
Found(x) == [found |-> TRUE, text |-> x]

\* the first result of a sequence of search results that matched
FirstFound(rs) ==
    LET ok == {n \in DOMAIN rs : rs[n].found}
    IN  IF ok = {} THEN NoMatch ELSE rs[Min(ok)]

\* group(1) of a match whose capture is s[k..e]
Group(s, k, e) == IF e = 0 THEN NoMatch ELSE Found(SubSeq(s, k, e))

\* ([^stops]+?)(?:terms) from k
Capture(s, t, k, stops, terms) == Group(s, k, CapEnd(t, k, stops, terms))

\* \s+([^stops]+?)(?:terms) from b, where the run of whitespace is ws long
CaptureFromSpace(s, t, b, ws, stops, terms) ==
    FirstFound([j \in 1..ws |-> Capture(s, t, b + ws + 1 - j, stops, terms)])

SpaceCapture(s, t, b, stops, terms) ==
    CaptureFromSpace(s, t, b, RunLen(t, b, WS), stops, terms)

\* (?:mids)\s+([^stops]+?)(?:terms) from g
CaptureFromMid(s, t, g, mids, stops, terms) ==
    FirstFound([m \in DOMAIN mids |->
        IF MatchAt(t, g, mids[m])
        THEN SpaceCapture(s, t, g + Len(mids[m]), stops, terms)
        ELSE NoMatch])

\* \s+(?:mids)... from a, where the run of whitespace is ws long
GreedyGap(s, t, a, ws, mids, stops, terms) ==
    FirstFound([j \in 1..ws |-> CaptureFromMid(s, t, a + ws + 1 - j, mids, stops, terms)])

\* .*?(?:mids)... from a
LazyGap(s, t, a, mids, stops, terms) ==
    FirstFound([j \in 1..(Len(t) + 2 - a) |->
        IF NoNewline(t, a, a + j - 1)
        THEN CaptureFromMid(s, t, a + j - 1, mids, stops, terms)
        ELSE NoMatch])

\* what follows the lead, from a
CaptureAfterLead(s, t, a, gap, mids, stops, terms) ==
    IF mids = << >> THEN SpaceCapture(s, t, a, stops, terms)
    ELSE IF gap = "ws" THEN GreedyGap(s, t, a, RunLen(t, a, WS), mids, stops, terms)
    ELSE LazyGap(s, t, a, mids, stops, terms)

\* the whole pattern from i
CaptureFromLead(s, t, i, leads, gap, mids, stops, terms) ==
    FirstFound([l \in DOMAIN leads |->
        IF MatchAt(t, i, leads[l])
        THEN CaptureAfterLead(s, t, i + Len(leads[l]), gap, mids, stops, terms)
        ELSE NoMatch])

\* re.search of  (?:leads) GAP (?:mids)\s+([^stops]+?)(?:terms)  where GAP is \s+
\* (gap = "ws") or .*? (gap = "lazy"); mids = << >> stands for a pattern
\* without the middle part,  (?:leads)\s+([^stops]+?)(?:terms).
\* The match is the first in backtracking order at the leftmost start.
SearchStops(s, leads, gap, mids, stops, terms) ==
    FirstFound([i \in 1..(Len(s) + 1) |->
        CaptureFromLead(s, lower(s), i, leads, gap, mids, stops, terms)])

\* the patterns whose capture is ([^.?]+?)
SearchPattern(s, leads, gap, mids, terms) == SearchStops(s, leads, gap, mids, StopChars, terms)

\* re.search of  ^([^.?]+?)(?:terms)
SearchAnchored(s, terms) == Capture(s, lower(s), 1, StopChars, terms)

\* no character of StopChars in t[a..b-1]: what [^.?]*? may cross
Free(t, a, b) == \A j \in a..(b - 1) : t[j] \notin StopChars

\* [^.?]*?)(?:terms) from y, the capture having started at k
KeyTail(s, t, k, y, terms) ==
    FirstFound([j \in 1..(Len(t) - y + 2) |->
        IF Free(t, y, y + j - 1) /\ \E q \in DOMAIN terms : TermAt(t, y + j - 1, terms[q])
        THEN Found(SubSeq(s, k, y + j - 2))
        ELSE NoMatch])

\* (?:keys)[^.?]*?)(?:terms) from x
CaptureFromKey(s, t, k, x, keys, terms) ==
    FirstFound([m \in DOMAIN keys |->
        IF MatchAt(t, x, keys[m]) THEN KeyTail(s, t, k, x + Len(keys[m]), terms) ELSE NoMatch])

\* ([^.?]*?(?:keys)[^.?]*?)(?:terms) from k
KeyedCapture(s, t, k, keys, terms) ==
    FirstFound([j \in 1..(Len(t) - k + 1) |->
        IF Free(t, k, k + j - 1) THEN CaptureFromKey(s, t, k, k + j - 1, keys, terms) ELSE NoMatch])

KeyedFromSpace(s, t, b, ws, keys, terms) ==
    FirstFound([j \in 1..ws |-> KeyedCapture(s, t, b + ws + 1 - j, keys, terms)])

KeyedFromLead(s, t, i, leads, keys, terms) ==
    FirstFound([l \in DOMAIN leads |->
        IF MatchAt(t, i, leads[l])
        THEN KeyedFromSpace(s, t, i + Len(leads[l]), RunLen(t, i + Len(leads[l]), WS), keys, terms)
        ELSE NoMatch])

\* re.search of  (?:leads)\s+([^.?]*?(?:keys)[^.?]*?)(?:terms)
SearchKeyed(s, leads, keys, terms) ==
    FirstFound([i \in 1..Len(s) |-> KeyedFromLead(s, lower(s), i, leads, keys, terms)])

\* \s+(?:words).*$ matches from p
CutMatches(t, p, words) ==
    \E w \in 1..RunLen(t, p, WS) : \E n \in DOMAIN words :
        /\ MatchAt(t, p + w, words[n])
        /\ \E z \in (p + w + Len(words[n]))..(Len(t) + 1) :
              NoNewline(t, p + w + Len(words[n]), z) /\ AtEnd(t, z)

\* s cut at p; what is left after the match when it stops before a final newline
CutAt(s, p) ==
    IF p = 0 THEN s
    ELSE SubSeq(s, 1, p - 1) \o (IF s[Len(s)] = "\n" THEN << "\n" >> ELSE << >>)

\* re.sub(r'\s+(?:words).*$', '', s, flags=re.IGNORECASE)
CutFrom(s, words) == CutAt(s, MinOr0({p \in 1..Len(s) : CutMatches(lower(s), p, words)}))

----------------------------------------------------------------------------
(* Query derivation of execute_task_with_tools                             *)

ResearchKeywords ==
    << <<"r", "e", "s", "e", "a", "r", "c", "h">>, <<"s", "e", "a", "r", "c", "h">>, <<"f", "i", "n", "d">>, <<"i", "n", "f", "o", "r", "m", "a", "t", "i", "o", "n">>, <<"c", "o", "n", "t", "e", "x", "t", " ", "p", "r", "o", "c", "e", "s", "s", "i", "n", "g">>,
       <<"w", "e", "a", "t", "h", "e", "r">>, <<"f", "o", "r", "e", "c", "a", "s", "t">>, <<"c", "o", "n", "d", "i", "t", "i", "o", "n", "s">>, <<"t", "e", "m", "p", "e", "r", "a", "t", "u", "r", "e">>, <<"r", "a", "i", "n">>, <<"s", "n", "o", "w">>,
       <<"f", "i", "n", "a", "n", "c", "i", "a", "l">>, <<"m", "a", "r", "k", "e", "t">>, <<"s", "t", "o", "c", "k">>, <<"i", "n", "v", "e", "s", "t", "m", "e", "n", "t">>, <<"c", "r", "y", "p", "t", "o", "c", "u", "r", "r", "e", "n", "c", "y">>,
       <<"a", "c", "a", "d", "e", "m", "i", "c">>, <<"l", "i", "t", "e", "r", "a", "t", "u", "r", "e">>, <<"s", "t", "u", "d", "y">>, <<"a", "n", "a", "l", "y", "s", "i", "s">> >>

should_research(task) == ContainsAny(lower(task), ResearchKeywords)

WeatherTriggers   == << <<"w", "e", "a", "t", "h", "e", "r">>, <<"f", "o", "r", "e", "c", "a", "s", "t">> >>
FinancialTriggers == << <<"i", "n", "v", "e", "s", "t", "m", "e", "n", "t">>, <<"f", "i", "n", "a", "n", "c", "i", "a", "l">>, <<"m", "a", "r", "k", "e", "t">>, <<"s", "t", "o", "c", "k">>, <<"c", "r", "y", "p", "t", "o", "c", "u", "r", "r", "e", "n", "c", "y">> >>
AcademicTriggers  == << <<"l", "i", "t", "e", "r", "a", "t", "u", "r", "e">>, <<"a", "c", "a", "d", "e", "m", "i", "c">>, <<"r", "e", "s", "e", "a", "r", "c", "h">>, <<"s", "t", "u", "d", "y">>, <<"a", "n", "a", "l", "y", "s", "i", "s">> >>

\* the branch of the if / elif chain that derives the query
QueryDomain(task) ==
    IF ContainsAny(lower(task), WeatherTriggers) THEN "weather"
    ELSE IF ContainsAny(lower(task), FinancialTriggers) THEN "financial"
    ELSE IF ContainsAny(lower(task), AcademicTriggers) THEN "academic"
    ELSE "general"

WeatherTerms1 == << Lit(<<"?">>), Lit(<<".">>), WsLit(<<"f", "o", "r">>), WsLit(<<"e", "v", "e", "n", "t">>), EndT >>
WeatherTerms2 == << Lit(<<"?">>), Lit(<<".">>), WsLit(<<"p", "l", "a", "n">>), EndT >>
WeatherTerms3 == << Lit(<<"?">>), Lit(<<".">>), WsLit(<<"e", "v", "e", "n", "t">>), EndT >>

\* location_patterns, searched in the task description itself; the loop
\* stops at the first pattern that matches
location(task) ==
    LET m == FirstFound(<<
                SearchPattern(task, << <<"w", "e", "a", "t", "h", "e", "r">>, <<"f", "o", "r", "e", "c", "a", "s", "t">>, <<"c", "o", "n", "d", "i", "t", "i", "o", "n", "s">> >>, "lazy",
                              << <<"i", "n">>, <<"f", "o", "r">>, <<"a", "t">> >>, WeatherTerms1),
                SearchPattern(task, << <<"o", "u", "t", "d", "o", "o", "r">>, <<"e", "v", "e", "n", "t">> >>, "lazy",
                              << <<"i", "n">>, <<"a", "t">> >>, WeatherTerms2),
                SearchPattern(task, << <<"p", "l", "a", "n">>, <<"p", "l", "a", "n", "n", "i", "n", "g">> >>, "lazy",
                              << <<"i", "n">>, <<"a", "t">>, <<"f", "o", "r">> >>, WeatherTerms3) >>)
    IN  strip(m.text)

WeatherFallback   == <<"c", "u", "r", "r", "e", "n", "t", " ", "w", "e", "a", "t", "h", "e", "r", " ", "f", "o", "r", "e", "c", "a", "s", "t">>
FinancialFallback == <<"c", "u", "r", "r", "e", "n", "t", " ", "m", "a", "r", "k", "e", "t", " ", "a", "n", "a", "l", "y", "s", "i", "s", " ", "f", "i", "n", "a", "n", "c", "i", "a", "l", " ", "t", "r", "e", "n", "d", "s">>
AcademicFallback  == <<"a", "c", "a", "d", "e", "m", "i", "c", " ", "r", "e", "s", "e", "a", "r", "c", "h", " ", "a", "n", "a", "l", "y", "s", "i", "s">>
GeneralFallback   == <<"g", "e", "n", "e", "r", "a", "l", " ", "r", "e", "s", "e", "a", "r", "c", "h", " ", "q", "u", "e", "r", "y">>

\* A faulty variant of weather_for: the extracted location is dropped.
weather_for_nowhere(loc) == WeatherFallback

\* f"current weather forecast {location}" when a location was extracted
weather_for(loc) == IF loc # << >> THEN WeatherFallback \o <<" ">> \o loc ELSE WeatherFallback

weather_query(task) == weather_for(location(task))

FinancialTerms == << Lit(<<"?">>), Lit(<<".">>), WsLit(<<"r", "e", "s", "e", "a", "r", "c", "h">>), EndT >>
SendTerms      == << Lit(<<"?">>), Lit(<<".">>), WsLit(<<"s", "e", "n", "d">>), EndT >>

\* the extracted text, or the fallback query when nothing was extracted
OrFallback(x, fallback) == IF x # << >> THEN x ELSE fallback

ShortWords == { <<"a", "n", "d">>, <<"o", "r">>, <<"b", "u", "t">>, <<"t", "h", "e">>, <<"o", "f">>, <<"i", "n">>, <<"t", "o">>, <<"a">>, <<"a", "n">> }

\* the extracted text of a match after its clean-up; << >> when the pattern
\* did not match
Cleaned(m, words) == IF m.found THEN CutFrom(strip(m.text), words) ELSE << >>

\* the first clean-up result a loop over patterns accepts (len(extracted) > 3)
FirstAccepted(xs, reject) ==
    LET ok == {n \in DOMAIN xs : Len(xs[n]) > 3 /\ lower(xs[n]) \notin reject}
    IN  IF ok = {} THEN << >> ELSE xs[Min(ok)]

FinancialCut == << <<"r", "e", "s", "e", "a", "r", "c", "h">>, <<"a", "n", "d", " ", "r", "e", "s", "e", "a", "r", "c", "h">>, <<"s", "e", "n", "d">>, <<"e", "m", "a", "i", "l">> >>

financial_query(clean) ==
    OrFallback(FirstAccepted(<<
                Cleaned(SearchPattern(clean,
                            << <<"i", "n", "v", "e", "s", "t", "m", "e", "n", "t", " ", "o", "p", "p", "o", "r", "t", "u", "n", "i", "t", "i", "e", "s">>, <<"o", "p", "p", "o", "r", "t", "u", "n", "i", "t", "i", "e", "s">>, <<"i", "n", "v", "e", "s", "t", "i", "n", "g">>, <<"i", "n", "v", "e", "s", "t">> >>,
                            "ws", << <<"i", "n">>, <<"f", "o", "r">> >>, FinancialTerms), FinancialCut),
                Cleaned(SearchKeyed(clean, << <<"b", "e", "s", "t">>, <<"g", "o", "o", "d">>, <<"t", "o", "p">> >>,
                            << <<"i", "n", "v", "e", "s", "t", "m", "e", "n", "t">>, <<"s", "t", "o", "c", "k">>, <<"m", "a", "r", "k", "e", "t">>, <<"f", "i", "n", "a", "n", "c", "i", "a", "l">> >>,
                            FinancialTerms), FinancialCut),
                Cleaned(SearchPattern(clean,
                            << <<"a", "n", "a", "l", "y", "z", "e">>, <<"a", "n", "a", "l", "y", "s", "i", "s">>, <<"r", "e", "s", "e", "a", "r", "c", "h">>, <<"t", "r", "e", "n", "d", "s">> >>,
                            "ws", << <<"o", "f">>, <<"i", "n">>, <<"o", "n">>, <<"f", "o", "r">> >>, FinancialTerms), FinancialCut),
                Cleaned(SearchPattern(clean,
                            << <<"f", "i", "n", "a", "n", "c", "i", "a", "l">>, <<"m", "a", "r", "k", "e", "t">>, <<"s", "t", "o", "c", "k">>, <<"i", "n", "v", "e", "s", "t", "m", "e", "n", "t">> >>,
                            "ws", << >>, FinancialTerms), FinancialCut) >>, ShortWords),
        FinancialFallback)

AcademicCut == << <<"s", "e", "n", "d">>, <<"e", "m", "a", "i", "l">>, <<"m", "a", "i", "l">> >>

\* A faulty variant of academic_query: no pattern is tried.
academic_query_fallback(clean) == AcademicFallback

academic_query(clean) ==
    OrFallback(FirstAccepted(<<
                Cleaned(SearchPattern(clean,
                            << <<"l", "i", "t", "e", "r", "a", "t", "u", "r", "e", " ", "r", "e", "v", "i", "e", "w">>, <<"r", "e", "v", "i", "e", "w">>, <<"r", "e", "s", "e", "a", "r", "c", "h">>, <<"s", "t", "u", "d", "y">>, <<"a", "n", "a", "l", "y", "s", "i", "s">> >>,
                            "ws", << <<"o", "n">>, <<"o", "f">>, <<"a", "b", "o", "u", "t">>, <<"r", "e", "g", "a", "r", "d", "i", "n", "g">> >>, SendTerms), AcademicCut),
                Cleaned(SearchPattern(clean, << <<"a", "p", "p", "l", "i", "c", "a", "t", "i", "o", "n", "s">>, <<"u", "s", "e", "s">>, <<"r", "o", "l", "e">> >>,
                            "ws", << <<"o", "f">>, <<"i", "n">> >>, SendTerms), AcademicCut),
                Cleaned(SearchPattern(clean,
                            << <<"m", "a", "c", "h", "i", "n", "e", " ", "l", "e", "a", "r", "n", "i", "n", "g">>, <<"a", "i">>, <<"a", "r", "t", "i", "f", "i", "c", "i", "a", "l", " ", "i", "n", "t", "e", "l", "l", "i", "g", "e", "n", "c", "e">> >>,
                            "ws", << <<"i", "n">>, <<"f", "o", "r">>, <<"a", "p", "p", "l", "i", "c", "a", "t", "i", "o", "n", "s", " ", "i", "n">> >>, SendTerms), AcademicCut) >>, {}),
        AcademicFallback)

\* topic_patterns: the main topic of the cleaned task
Topic(m) == IF m.found THEN strip(m.text) ELSE << >>

general_query(clean) ==
    OrFallback(FirstAccepted(<<
                Topic(SearchPattern(clean, << <<"a", "b", "o", "u", "t">>, <<"o", "n">>, <<"r", "e", "g", "a", "r", "d", "i", "n", "g">>, <<"f", "o", "r">> >>,
                                    "ws", << >>, SendTerms)),
                Topic(SearchAnchored(clean, SendTerms)) >>, {}),
        GeneralFallback)

\* research_query as the search call receives it (should_research holds)
domain_query(domain, task, clean) ==
    CASE domain = "weather"   -> weather_query(task)
      [] domain = "financial" -> financial_query(clean)
      [] domain = "academic"  -> academic_query(clean)
      [] OTHER                -> general_query(clean)

derive_query(task) == domain_query(QueryDomain(task), task, clean_task(task))

----------------------------------------------------------------------------
(* analyze_content_for_insights                                            *)

\* str.split(sep)
RECURSIVE SplitFrom(_, _, _, _)
SplitFrom(s, sep, found, pos) ==
    LET hits == {i \in found : i >= pos}
    IN  IF hits = {} THEN << SubSeq(s, pos, Len(s)) >>
        ELSE << SubSeq(s, pos, Min(hits) - 1) >>
             \o SplitFrom(s, sep, found, Min(hits) + Len(sep))

\* the occurrences of sep are taken from the left, without overlap
split(s, sep) ==
    SplitFrom(s, sep, {i \in 1..(Len(s) - Len(sep) + 1) : MatchAt(s, i, sep)}, 1)

\* concatenation of a sequence of texts
RECURSIVE Concat(_)
Concat(xs) == IF xs = << >> THEN << >> ELSE Head(xs) \o Concat(Tail(xs))

\* the elements of a sequence that satisfy Keep, in order
Filter(xs, Keep(_)) ==
    LET ok == {n \in DOMAIN xs : Keep(xs[n])}
        Nth(k) == CHOOSE n \in ok : Cardinality({m \in ok : m < n}) = k - 1
    IN  [k \in 1..Cardinality(ok) |-> xs[Nth(k)]]

\* A dictionary is a record whose fields are its keys.
\* dict.get(key, default)
Get(d, key, default) == IF key \in DOMAIN d THEN d[key] ELSE default

\* the truth value of dict.get(key) for a text: the key is there and the
\* text is not empty
Has(d, key) == key \in DOMAIN d /\ d[key] # << >>

\* Combine all scraped content
all_text(pages) ==
    Concat([n \in DOMAIN pages |->
              IF pages[n].success /\ Has(pages[n], "content")
              THEN pages[n].content \o <<"\n", "\n">> ELSE << >>])

HasDigit(s) == \E i \in DOMAIN s : s[i] \in DigitChars

TempWords     == << <<"t", "e", "m", "p", "e", "r", "a", "t", "u", "r", "e">>, <<"d", "e", "g", "r", "e", "e", "s">>, <<"°", "f">>, <<"°", "c">>, <<"h", "i", "g", "h">>, <<"l", "o", "w">> >>
CondWords     == << <<"r", "a", "i", "n">>, <<"s", "n", "o", "w">>, <<"s", "u", "n", "n", "y">>, <<"c", "l", "o", "u", "d", "y">>, <<"s", "t", "o", "r", "m">>, <<"w", "i", "n", "d">>, <<"h", "u", "m", "i", "d", "i", "t", "y">>, <<"p", "r", "e", "c", "i", "p", "i", "t", "a", "t", "i", "o", "n">> >>
ForecastWords == << <<"f", "o", "r", "e", "c", "a", "s", "t">>, <<"o", "u", "t", "l", "o", "o", "k">>, <<"e", "x", "p", "e", "c", "t", "e", "d">>, <<"t", "o", "d", "a", "y">>, <<"t", "o", "m", "o", "r", "r", "o", "w">>, <<"w", "e", "e", "k">> >>

PriceChars   == << <<"$">>, <<"%">> >>
PriceWords   == << <<"p", "r", "i", "c", "e">>, <<"c", "o", "s", "t">>, <<"r", "e", "t", "u", "r", "n">>, <<"y", "i", "e", "l", "d">>, <<"g", "a", "i", "n">>, <<"l", "o", "s", "s">> >>
InvestWords  == << <<"i", "n", "v", "e", "s", "t">>, <<"o", "p", "p", "o", "r", "t", "u", "n", "i", "t", "y">>, <<"r", "e", "c", "o", "m", "m", "e", "n", "d">>, <<"s", "t", "r", "a", "t", "e", "g", "y">>, <<"p", "o", "r", "t", "f", "o", "l", "i", "o">>, <<"d", "i", "v", "e", "r", "s", "i", "f", "y">> >>
TrendWords   == << <<"t", "r", "e", "n", "d">>, <<"g", "r", "o", "w", "t", "h">>, <<"m", "a", "r", "k", "e", "t">>, <<"s", "e", "c", "t", "o", "r">>, <<"i", "n", "d", "u", "s", "t", "r", "y">>, <<"a", "n", "a", "l", "y", "s", "i", "s">> >>

MethodWords  == << <<"m", "e", "t", "h", "o", "d", "o", "l", "o", "g", "y">>, <<"m", "e", "t", "h", "o", "d">>, <<"s", "t", "u", "d", "y", " ", "d", "e", "s", "i", "g", "n">>, <<"p", "a", "r", "t", "i", "c", "i", "p", "a", "n", "t", "s">>, <<"s", "a", "m", "p", "l", "e">> >>
ResultWords  == << <<"f", "i", "n", "d", "i", "n", "g", "s">>, <<"r", "e", "s", "u", "l", "t", "s">>, <<"c", "o", "n", "c", "l", "u", "s", "i", "o", "n">>, <<"s", "i", "g", "n", "i", "f", "i", "c", "a", "n", "t">>, <<"e", "v", "i", "d", "e", "n", "c", "e">> >>
FutureWords  == << <<"r", "e", "c", "o", "m", "m", "e", "n", "d">>, <<"s", "u", "g", "g", "e", "s", "t">>, <<"f", "u", "t", "u", "r", "e", " ", "r", "e", "s", "e", "a", "r", "c", "h">>, <<"l", "i", "m", "i", "t", "a", "t", "i", "o", "n">>, <<"i", "m", "p", "l", "i", "c", "a", "t", "i", "o", "n">> >>

SolutionWords == << <<"s", "o", "l", "u", "t", "i", "o", "n">>, <<"r", "e", "s", "o", "l", "v", "e">>, <<"f", "i", "x">>, <<"p", "r", "o", "c", "e", "d", "u", "r", "e">>, <<"p", "o", "l", "i", "c", "y">>, <<"r", "e", "f", "u", "n", "d">>, <<"e", "x", "c", "h", "a", "n", "g", "e">> >>
ContactWords  == << <<"c", "o", "n", "t", "a", "c", "t">>, <<"p", "h", "o", "n", "e">>, <<"e", "m", "a", "i", "l">>, <<"d", "e", "p", "a", "r", "t", "m", "e", "n", "t">>, <<"e", "s", "c", "a", "l", "a", "t", "e">>, <<"m", "a", "n", "a", "g", "e", "r">> >>

FinancialTaskWords == << <<"i", "n", "v", "e", "s", "t", "m", "e", "n", "t">>, <<"m", "a", "r", "k", "e", "t">>, <<"f", "i", "n", "a", "n", "c", "i", "a", "l">>, <<"s", "t", "o", "c", "k">> >>

\* the branch of the if / elif chain of the analysis
AnalysisDomain(agent_type, task) ==
    IF Contains(lower(agent_type), <<"w", "e", "a", "t", "h", "e", "r">>) \/ Contains(lower(task), <<"w", "e", "a", "t", "h", "e", "r">>)
    THEN "weather"
    ELSE IF Contains(lower(agent_type), <<"f", "i", "n", "a", "n", "c", "i", "a", "l">>)
            \/ ContainsAny(lower(task), FinancialTaskWords)
    THEN "financial"
    ELSE IF Contains(lower(agent_type), <<"a", "c", "a", "d", "e", "m", "i", "c">>) \/ Contains(lower(task), <<"r", "e", "s", "e", "a", "r", "c", "h">>)
    THEN "academic"
    ELSE IF Contains(lower(agent_type), <<"c", "u", "s", "t", "o", "m", "e", "r">>) THEN "customer"
    ELSE "none"

None == [bucket |-> "none", entry |-> << >>]
Put(b, e) == [bucket |-> b, entry |-> e]

\* Each classifier takes a stripped unit (a line or a paragraph) and gives
\* the bucket it is appended to and the entry, or None.
classify_weather(line) ==
    IF Len(line) < 20 THEN None
    ELSE IF ContainsAny(lower(line), TempWords)
    THEN (IF HasDigit(line) THEN Put("specific_data", <<"T", "e", "m", "p", "e", "r", "a", "t", "u", "r", "e", ":", " ">> \o Take(line, 150))
          ELSE None)
    ELSE IF ContainsAny(lower(line), CondWords)
    THEN Put("key_findings", <<"C", "o", "n", "d", "i", "t", "i", "o", "n", "s", ":", " ">> \o Take(line, 150))
    ELSE IF ContainsAny(lower(line), ForecastWords)
    THEN Put("summary", <<"F", "o", "r", "e", "c", "a", "s", "t", ":", " ">> \o Take(line, 150))
    ELSE None

classify_financial(line) ==
    IF Len(line) < 30 THEN None
    ELSE IF ContainsAny(line, PriceChars) /\ ContainsAny(lower(line), PriceWords)
    THEN Put("specific_data", <<"M", "a", "r", "k", "e", "t", " ", "D", "a", "t", "a", ":", " ">> \o Take(line, 200))
    ELSE IF ContainsAny(lower(line), InvestWords)
    THEN Put("recommendations", <<"I", "n", "v", "e", "s", "t", "m", "e", "n", "t", " ", "I", "n", "s", "i", "g", "h", "t", ":", " ">> \o Take(line, 200))
    ELSE IF ContainsAny(lower(line), TrendWords)
    THEN Put("key_findings", <<"M", "a", "r", "k", "e", "t", " ", "A", "n", "a", "l", "y", "s", "i", "s", ":", " ">> \o Take(line, 200))
    ELSE None

classify_academic(para) ==
    IF Len(para) < 50 THEN None
    ELSE IF ContainsAny(lower(para), MethodWords)
    THEN Put("specific_data", <<"M", "e", "t", "h", "o", "d", "o", "l", "o", "g", "y", ":", " ">> \o Take(para, 250))
    ELSE IF ContainsAny(lower(para), ResultWords)
    THEN Put("key_findings", <<"R", "e", "s", "e", "a", "r", "c", "h", " ", "F", "i", "n", "d", "i", "n", "g", ":", " ">> \o Take(para, 250))
    ELSE IF ContainsAny(lower(para), FutureWords)
    THEN Put("recommendations", <<"R", "e", "s", "e", "a", "r", "c", "h", " ", "R", "e", "c", "o", "m", "m", "e", "n", "d", "a", "t", "i", "o", "n", ":", " ">> \o Take(para, 250))
    ELSE None

classify_customer(line) ==
    IF Len(line) < 20 THEN None
    ELSE IF ContainsAny(lower(line), SolutionWords)
    THEN Put("recommendations", <<"S", "o", "l", "u", "t", "i", "o", "n", ":", " ">> \o Take(line, 200))
    ELSE IF ContainsAny(lower(line), ContactWords)
    THEN Put("specific_data", <<"C", "o", "n", "t", "a", "c", "t", " ", "I", "n", "f", "o", ":", " ">> \o Take(line, 150))
    ELSE None

\* the units of the combined text and their classification, in text order
classified(pages, agent_type, task) ==
    LET text == all_text(pages)
        dom  == AnalysisDomain(agent_type, task)
        units == IF dom = "academic" THEN split(text, <<"\n", "\n">>) ELSE split(text, <<"\n">>)
    IN  [n \in DOMAIN units |->
            CASE dom = "weather"   -> classify_weather(strip(units[n]))
              [] dom = "financial" -> classify_financial(strip(units[n]))
              [] dom = "academic"  -> classify_academic(strip(units[n]))
              [] dom = "customer"  -> classify_customer(strip(units[n]))
              [] OTHER             -> None]

BucketNames == {"key_findings", "specific_data", "recommendations", "summary"}

EmptyInsights == [b \in BucketNames |-> << >>]

\* the insights lists before the clean-up: what was appended to each bucket
raw_insights(pages, agent_type, task) ==
    IF pages = << >> \/ all_text(pages) = << >> THEN EmptyInsights
    ELSE LET cs == classified(pages, agent_type, task)
         IN  [b \in BucketNames |->
                LET InB(c) == c.bucket = b
                    hit == Filter(cs, InB)
                IN  [n \in DOMAIN hit |-> hit[n].entry]]

\* first occurrences, in insertion order
RECURSIVE Distinct(_)
Distinct(xs) ==
    IF xs = << >> THEN << >>
    ELSE LET d == Distinct(SubSeq(xs, 1, Len(xs) - 1))
             x == xs[Len(xs)]
         IN  IF \E n \in DOMAIN d : d[n] = x THEN d ELSE Append(d, x)

\* the permutation of d with the number seed: the digits of seed, written
\* with the bases n, n - 1, ..., 2, say which element comes last, which comes
\* last of the others, and so on.  The seeds 0 .. n! - 1 give the n!
\* permutations of d, each once; seed 0 gives d itself.
RECURSIVE Permuted(_, _)
Permuted(d, seed) ==
    IF Len(d) <= 1 THEN d
    ELSE LET n == Len(d)
             k == n - (seed % n)
             others == SubSeq(d, 1, k - 1) \o SubSeq(d, k + 1, n)
         IN  Append(Permuted(others, seed \div n), d[k])

RECURSIVE Factorial(_)
Factorial(n) == IF n <= 1 THEN 1 ELSE n * Factorial(n - 1)

MaxInsights == 5

\* A faulty variant of clean_bucket: the [:5] is missing.
clean_bucket_unbounded(d, seed) == Permuted(d, seed)

\* list(set(...)) and [:5], lines 1006-1008, for the set whose elements are
\* d at their first occurrence: the elements in the iteration order of the
\* set, which is the permutation with the number seed, cut to 5.  The order
\* depends on the string hashes of the process, not on the insertion order:
\* any order of the elements can come out.
clean_bucket(d, seed) == Take(Permuted(d, seed), MaxInsights)

\* -- the string hashes of the process --
\* The iteration order of a set of strings is decided by the string hashes,
\* which a process draws when it starts: a process that makes a set of the
\* same list twice iterates it in the same order twice, and the orders of
\* two sets are not tied to each other.  What a process has shown of its
\* hashes is a set of pairs << xs, n >>: the set made of the list xs is
\* iterated in the order with the number n.

IsKnown(known, xs) == \E p \in known : p[1] = xs
NumberOf(known, xs) == (CHOOSE p \in known : p[1] = xs)[2]

\* set([i for i in insights[key] if i.strip()]), line 1006: the sets made of
\* the four lists, each set as the list of its elements at their first
\* occurrence: the entries that are not blank (adding an element to a set a
\* second time changes nothing)
SetSources(raw) ==
    LET NonBlank(x) == strip(x) # << >>
    IN  [b \in BucketNames |-> Distinct(Filter(raw[b], NonBlank))]

\* the buckets in the order of the dictionary, lines 907-912
BucketSeq == << "key_findings", "specific_data", "recommendations", "summary" >>

\* the number of orders the sets made of the lists src[BucketSeq[n]], ... can
\* jointly have, given the orders known; two buckets made of the same list
\* have one order between them
RECURSIVE JointOrders(_, _, _)
JointOrders(src, known, n) ==
    IF n > Len(BucketSeq) THEN 1
    ELSE IF IsKnown(known, src[BucketSeq[n]]) THEN JointOrders(src, known, n + 1)
    ELSE Factorial(Len(src[BucketSeq[n]]))
         * JointOrders(src, known \cup {<< src[BucketSeq[n]], 0 >>}, n + 1)

\* the joint order with the number joint: its digits are the numbers of the
\* orders of the sets not known, bucket by bucket; a set known has its number
RECURSIVE SeedsFrom(_, _, _, _)
SeedsFrom(src, known, joint, n) ==
    IF n > Len(BucketSeq) THEN << >>
    ELSE IF IsKnown(known, src[BucketSeq[n]])
    THEN << NumberOf(known, src[BucketSeq[n]]) >> \o SeedsFrom(src, known, joint, n + 1)
    ELSE << joint % Factorial(Len(src[BucketSeq[n]])) >>
         \o SeedsFrom(src,
                      known \cup {<< src[BucketSeq[n]], joint % Factorial(Len(src[BucketSeq[n]])) >>},
                      joint \div Factorial(Len(src[BucketSeq[n]])), n + 1)

Seeds(s) == [b \in BucketNames |-> s[CHOOSE n \in DOMAIN BucketSeq : BucketSeq[n] = b]]

\* the iteration orders the sets of one call can have in a process that has
\* shown the orders known: for each bucket the number of its order.  Every
\* joint order of the sets not known is among them.
Hashings(src, known) ==
    {Seeds(SeedsFrom(src, known, joint, 1)) : joint \in 0..(JointOrders(src, known, 1) - 1)}

\* what the process has shown after a call: the orders of its sets of more
\* than one element
Learn(known, src, seeds) ==
    known \cup {<< src[b], seeds[b] >> :
                   b \in {c \in BucketNames : ~IsKnown(known, src[c]) /\ Len(src[c]) > 1}}

\* the lists the sets src can give in a process that has shown the orders
\* known, each with what the process has shown after it
CleanUps(src, known) ==
    UNION {{[insights |-> [b \in BucketNames |-> clean_bucket(sets[b], seeds[b])],
             shown |-> Learn(known, sets, seeds)] : seeds \in Hashings(sets, known)} :
           sets \in {src}}

\* A faulty variant of clean_up: the lists are cut to 5 entries before the
\* duplicates are removed.
clean_up_cutting_first(raw, known) ==
    LET NonBlank(x) == strip(x) # << >>
    IN  CleanUps(SetSources([b \in BucketNames |-> Take(Filter(raw[b], NonBlank), MaxInsights)]),
                 known)

\* Lines 1004-1008: the clean-up of the four lists
clean_up(raw, known) == CleanUps(SetSources(raw), known)

analyze_content_for_insights(pages, agent_type, research_q, task, known) ==
    clean_up(raw_insights(pages, agent_type, task), known)

----------------------------------------------------------------------------
(* generate_comprehensive_report                                           *)
(*                                                                         *)
(* report_parts is the list of lines before "\n".join.  A line is a tuple: *)
(* the literal text of the source line, followed by the texts the f-string *)
(* interpolates, in order.  The bullet of the source is written "* ".      *)
(* The clock reading of datetime.now() is not modelled: Clock stands for   *)
(* the formatted time.                                                     *)

Repeat(c, n) == [i \in 1..n |-> c]
Rule80 == << "", Repeat("=", 80) >>
Rule40 == << "", Repeat("-", 40) >>
Blank  == << "" >>
Clock  == <<"%", "Y", "-", "%", "m", "-", "%", "d", " ", "%", "H", ":", "%", "M", ":", "%", "S">>

DigitSeq == <<"0", "1", "2", "3", "4", "5", "6", "7", "8", "9">>

\* str(n) of a natural number
RECURSIVE Dec(_)
Dec(n) == IF n < 10 THEN << DigitSeq[n + 1] >> ELSE Dec(n \div 10) \o << DigitSeq[(n % 10) + 1] >>

\* sep.join(xs)
RECURSIVE Join(_, _)
Join(xs, sep) ==
    IF xs = << >> THEN << >>
    ELSE IF Len(xs) = 1 THEN xs[1]
    ELSE xs[1] \o sep \o Join(Tail(xs), sep)

\* one line "* {x}" per element
Bullets(xs) == [n \in DOMAIN xs |-> << "* ", xs[n] >>]

\* Header - varies by agent type
HeaderTitle(agent_name, agent_type) ==
    IF agent_type = <<"l", "l", "m">> /\ Contains(lower(agent_name), <<"r", "e", "s", "e", "a", "r", "c", "h">>)
    THEN "COMPREHENSIVE RESEARCH REPORT"
    ELSE IF agent_type = <<"s", "e", "q", "u", "e", "n", "t", "i", "a", "l">> /\ Contains(lower(agent_name), <<"c", "u", "s", "t", "o", "m", "e", "r">>)
    THEN "CUSTOMER SERVICE RESOLUTION REPORT"
    ELSE IF agent_type = <<"l", "l", "m">> /\ Contains(lower(agent_name), <<"w", "e", "a", "t", "h", "e", "r">>)
    THEN "WEATHER INFORMATION REPORT"
    ELSE IF agent_type = <<"p", "a", "r", "a", "l", "l", "e", "l">> /\ Contains(lower(agent_name), <<"f", "i", "n", "a", "n", "c", "i", "a", "l">>)
    THEN "FINANCIAL ANALYSIS REPORT"
    ELSE IF agent_type = <<"l", "o", "o", "p">> /\ Contains(lower(agent_name), <<"a", "c", "a", "d", "e", "m", "i", "c">>)
    THEN "ACADEMIC RESEARCH REPORT"
    ELSE "TASK COMPLETION REPORT"

\* the branch the summary, response and contact sections take
NameDomain(agent_name) ==
    IF Contains(lower(agent_name), <<"c", "u", "s", "t", "o", "m", "e", "r">>) THEN "customer"
    ELSE IF Contains(lower(agent_name), <<"w", "e", "a", "t", "h", "e", "r">>) THEN "weather"
    ELSE IF Contains(lower(agent_name), <<"f", "i", "n", "a", "n", "c", "i", "a", "l">>) THEN "financial"
    ELSE IF Contains(lower(agent_name), <<"a", "c", "a", "d", "e", "m", "i", "c">>) THEN "academic"
    ELSE "general"

HeaderBlock(task, query, search, agent_name, agent_type) ==
    << Rule80, << HeaderTitle(agent_name, agent_type) >>, Rule80,
       << "Request: ", task >> >>
    \o (IF search.success THEN << << "Research Query: ", query >> >> ELSE << >>)
    \o << << "Agent: ", agent_name, " (", upper(agent_type), ")" >>,
          << "Generated on: ", Clock >>,
          Blank >>

\* a titled list of insights, when the bucket is not empty
Titled(before, title, xs, after) ==
    IF xs = << >> THEN << >>
    ELSE before \o << << title >> >> \o Bullets(xs) \o after

SnippetLines(results) ==
    [n \in 1..(IF Len(results) < 2 THEN Len(results) ELSE 2) |->
        << "* ", Get(results[n], "snippet", << >>) >>]

FinTerms == << <<"i", "n", "v", "e", "s", "t", "m", "e", "n", "t">>, <<"m", "a", "r", "k", "e", "t">>, <<"f", "i", "n", "a", "n", "c", "i", "a", "l">>, <<"e", "n", "e", "r", "g", "y">>, <<"r", "e", "n", "e", "w", "a", "b", "l", "e">> >>
AcademicTerms == << <<"s", "t", "u", "d", "y">>, <<"r", "e", "s", "e", "a", "r", "c", "h">>, <<"j", "o", "u", "r", "n", "a", "l">>, <<"p", "u", "b", "m", "e", "d">>, <<"s", "c", "h", "o", "l", "a", "r">>, <<"a", "c", "a", "d", "e", "m", "i", "c">> >>
HardwareTerms == << <<"h", "a", "r", "d", "w", "a", "r", "e">>, <<"p", "r", "o", "c", "e", "s", "s", "i", "n", "g", " ", "u", "n", "i", "t">>, <<"c", "h", "i", "p">>, <<"p", "r", "o", "c", "e", "s", "s", "o", "r">>, <<"g", "p", "u">>, <<"c", "p", "u">>, <<"n", "e", "u", "r", "a", "l">>, <<"a", "s", "i", "c">> >>

WeatherSummary(search, ins) ==
    << << "WEATHER SUMMARY" >>, Rule40 >>
    \o (IF search.success
        THEN << << "Based on current weather analysis:" >> >>
             \o Titled(<< Blank >>, "CURRENT CONDITIONS:", ins["specific_data"], << >>)
             \o Titled(<< Blank >>, "WEATHER CONDITIONS:", ins["key_findings"], << >>)
             \o Titled(<< Blank >>, "FORECAST OUTLOOK:", ins["summary"], << >>)
             \o (IF ins["specific_data"] = << >> /\ ins["key_findings"] = << >> /\ ins["summary"] = << >>
                 THEN << << "Weather information found in search results:" >> >>
                      \o SnippetLines(search.results)
                 ELSE << >>)
        ELSE << << "I have processed your weather-related request." >>,
                << "As a Weather Assistant, I provide current conditions, forecasts," >>,
                << "and recommendations for weather-related planning." >> >>)

FinancialSummary(query, search, ins) ==
    << << "FINANCIAL ANALYSIS SUMMARY" >>, Rule40 >>
    \o (IF search.success
        THEN << << "Based on comprehensive analysis of ", query, ":" >> >>
             \o Titled(<< Blank >>, "MARKET DATA & ANALYSIS:", ins["specific_data"], << >>)
             \o Titled(<< Blank >>, "MARKET TRENDS & INSIGHTS:", ins["key_findings"], << >>)
             \o Titled(<< Blank >>, "PROFESSIONAL INSIGHTS:", ins["recommendations"], << >>)
             \o (IF ins["specific_data"] = << >> /\ ins["key_findings"] = << >>
                    /\ ins["recommendations"] = << >>
                 THEN << << "Market information found in research:" >> >>
                      \o LET top == Take(search.results, 2)
                             Fin(r) == ContainsAny(lower(Get(r, "title", << >>))
                                                    \o lower(Get(r, "snippet", << >>)), FinTerms)
                             hit == Filter(top, Fin)
                         IN  [n \in DOMAIN hit |->
                                << "* ", Get(hit[n], "title", << >>), ": ",
                                   Get(hit[n], "snippet", << >>) >>]
                 ELSE << >>)
        ELSE << << "I have analyzed your financial inquiry using available market knowledge." >>,
                << "As a Financial Advisor, I provide investment insights, market analysis," >>,
                << "and financial recommendations based on current data." >> >>)

AcademicSourceLines(n, source) ==
    << << "", Dec(n), ". ", Get(source, "title", <<"N", "o", " ", "t", "i", "t", "l", "e">>) >> >>
    \o (IF Contains(Get(source, "url", << >>), <<"d", "o", "i">>)
           \/ Contains(Get(source, "url", << >>), <<"p", "u", "b", "m", "e", "d">>)
        THEN << << "   [Peer-reviewed: ", Get(source, "url", << >>), "]" >> >> ELSE << >>)
    \o << << "   Summary: ", Get(source, "snippet", << >>) >>, Blank >>

AcademicSummary(query, search, ins) ==
    << << "ACADEMIC RESEARCH SUMMARY" >>, Rule40 >>
    \o (IF search.success
        THEN LET Acad(r) == ContainsAny(lower(Get(r, "title", << >>)) \o lower(Get(r, "url", << >>)),
                                           AcademicTerms)
                 academic_sources == Filter(search.results, Acad)
             IN  << << "Comprehensive literature review on: ", query >> >>
                 \o (IF academic_sources = << >> THEN << >>
                     ELSE << Blank,
                             << "ACADEMIC SOURCES REVIEWED (", Dec(Len(academic_sources)), " sources):" >> >>
                          \o Concat([n \in DOMAIN academic_sources |->
                                        AcademicSourceLines(n, academic_sources[n])]))
                 \o Titled(<< >>, "METHODOLOGY & STUDY DESIGN:", ins["specific_data"], << Blank >>)
                 \o Titled(<< >>, "KEY RESEARCH FINDINGS:", ins["key_findings"], << Blank >>)
                 \o Titled(<< >>, "RESEARCH IMPLICATIONS & FUTURE DIRECTIONS:", ins["recommendations"], << >>)
        ELSE << << "I have conducted an academic literature review using available resources." >>,
                << "As an Academic Researcher, I provide scholarly analysis," >>,
                << "citations, and evidence-based conclusions." >> >>)

GeneralSummary(task, query, search, pages) ==
    << << "EXECUTIVE SUMMARY" >>, Rule40 >>
    \o (IF search.success /\ pages # << >>
        THEN LET Hw(p) == p.success /\ Has(p, "content")
                          /\ ContainsAny(lower(p.content), HardwareTerms)
                 hw == Filter(pages, Hw)
                 hardware_mentions == [n \in DOMAIN hw |-> Get(hw[n], "title", <<"U", "n", "k", "n", "o", "w", "n", " ", "s", "o", "u", "r", "c", "e">>)]
             IN  (IF Contains(lower(query), <<"h", "a", "r", "d", "w", "a", "r", "e">>) \/ Contains(lower(task), <<"h", "a", "r", "d", "w", "a", "r", "e">>)
                  THEN (IF hardware_mentions # << >>
                        THEN << << "Based on analysis of ", Dec(Len(pages)),
                                   " academic sources, context processing does involve hardware considerations. Sources mentioning hardware implementations: ",
                                   Join(Take(hardware_mentions, 3), <<",", " ">>) >> >>
                        ELSE << << "The research indicates that context processing is primarily a cognitive and computational concept, with limited direct hardware implementation requirements mentioned in current literature." >> >>)
                  ELSE << >>)
                 \o << << "Context processing appears to be a critical cognitive function involving hippocampal-prefrontal circuits, with implications for aging, comprehension, and neurological conditions." >> >>
        ELSE << << "I have processed your request to the best of my abilities." >>,
                << "While comprehensive web research was not performed, I can provide" >>,
                << "general guidance and assistance based on my training." >> >>)

CustomerSummary ==
    << << "RESOLUTION SUMMARY" >>, Rule40,
       << "I have analyzed your request and prepared a professional response." >>,
       << "As a Customer Service representative, I focus on providing helpful solutions" >>,
       << "and ensuring customer satisfaction through clear communication." >> >>

\* Executive Summary - varies by agent type
SummarySection(task, query, search, pages, agent_name, ins) ==
    (CASE NameDomain(agent_name) = "customer"  -> CustomerSummary
       [] NameDomain(agent_name) = "weather"   -> WeatherSummary(search, ins)
       [] NameDomain(agent_name) = "financial" -> FinancialSummary(query, search, ins)
       [] NameDomain(agent_name) = "academic"  -> AcademicSummary(query, search, ins)
       [] OTHER                                -> GeneralSummary(task, query, search, pages))
    \o << Blank >>

InsightTerms == << <<"c", "o", "n", "t", "e", "x", "t">>, <<"p", "r", "o", "c", "e", "s", "s", "i", "n", "g">>, <<"c", "o", "g", "n", "i", "t", "i", "v", "e">>, <<"n", "e", "u", "r", "a", "l">> >>

\* the first two relevant paragraphs of a page body
relevant_paragraphs(content_text) ==
    LET Rel(para) == Len(para) > 100 /\ ContainsAny(lower(para), InsightTerms)
        hit == Take(Filter(split(content_text, <<"\n", "\n">>), Rel), 2)
    IN  [n \in DOMAIN hit |->
            IF Len(hit[n]) > 300 THEN Take(hit[n], 300) \o <<".", ".", ".">> ELSE hit[n]]

\* the lines added for the page content_data under a search result
PageLines(content_data) ==
    (IF Has(content_data, "content") /\ relevant_paragraphs(content_data.content) # << >>
     THEN << << "   Key Insights:" >> >>
          \o LET ps == relevant_paragraphs(content_data.content)
             IN  [n \in DOMAIN ps |-> << "   * ", ps[n] >>]
     ELSE << >>)
    \o (IF Has(content_data, "author")
        THEN << << "   Author: ", content_data.author >> >> ELSE << >>)
    \o (IF Has(content_data, "publishDate")
        THEN << << "   Published: ", content_data.publishDate >> >> ELSE << >>)

\* the entry of search result number i: the page printed under it is the
\* one at the same index of scraped_content
FindingLines(i, result, pages) ==
    << << "", Dec(i), ". ", Get(result, "title", <<"N", "o", " ", "t", "i", "t", "l", "e">>) >>,
       << "   URL: ", Get(result, "url", <<"N", "o", " ", "U", "R", "L">>) >>,
       << "   Summary: ", Get(result, "snippet", <<"N", "o", " ", "s", "u", "m", "m", "a", "r", "y">>) >> >>
    \o (IF i <= Len(pages) /\ pages[i].success THEN PageLines(pages[i]) ELSE << >>)
    \o << Blank >>

\* Detailed Findings
DetailedFindings(search, pages) ==
    IF search.success
    THEN << << "DETAILED FINDINGS" >>, Rule40 >>
         \o Concat([i \in DOMAIN search.results |-> FindingLines(i, search.results[i], pages)])
    ELSE << >>

CustomerResponse ==
    << << "CUSTOMER SERVICE RESPONSE" >>, Rule40,
       << "Dear Valued Customer," >>, Blank,
       << "Thank you for contacting us. I understand your concern and I'm here to help." >>, Blank,
       << "Based on your request, I recommend the following actions:" >>,
       << "* I will escalate your issue to the appropriate department" >>,
       << "* You should receive a follow-up within 24-48 hours" >>,
       << "* Please keep your reference number for future correspondence" >>,
       << "* Feel free to contact us if you need additional assistance" >>, Blank,
       << "We appreciate your patience and value your business." >> >>

WeatherRecTerms == << Lit(<<".">>), EndT, WsLit(<<"s", "e", "n", "d">>) >>

\* the location named in the weather recommendations
rec_location(task) ==
    LET m == SearchStops(task, << <<"w", "e", "a", "t", "h", "e", "r">>, <<"f", "o", "r", "e", "c", "a", "s", "t">>, <<"c", "o", "n", "d", "i", "t", "i", "o", "n", "s">> >>, "lazy",
                         << <<"i", "n">>, <<"f", "o", "r">> >>, {"."}, WeatherRecTerms)
    IN  IF m.found THEN strip(m.text) ELSE <<"y", "o", "u", "r", " ", "a", "r", "e", "a">>

\* weather_conditions: the conditions named by the key findings
weather_conditions(ins) ==
    LET Mentions(w) == \E n \in DOMAIN ins["key_findings"] : Contains(lower(ins["key_findings"][n]), w)
    IN  (IF Mentions(<<"r", "a", "i", "n">>) \/ Mentions(<<"p", "r", "e", "c", "i", "p", "i", "t", "a", "t", "i", "o", "n">>) THEN {"rain"} ELSE {})
        \cup (IF Mentions(<<"w", "i", "n", "d">>) THEN {"wind"} ELSE {})
        \cup (IF Mentions(<<"s", "n", "o", "w">>) THEN {"snow"} ELSE {})
        \cup (IF Mentions(<<"s", "t", "o", "r", "m">>) THEN {"storm"} ELSE {})

WeatherResponse(task, search, ins) ==
    << << "WEATHER RECOMMENDATIONS" >>, Rule40 >>
    \o (IF search.success
        THEN LET wc == weather_conditions(ins)
             IN  << << "Based on current weather analysis for ", rec_location(task), ":" >>,
                    Blank,
                    << "EVENT PLANNING RECOMMENDATIONS:" >> >>
                 \o (IF "rain" \in wc
                     THEN << << "* RAIN EXPECTED - Secure covered areas and tent rentals" >>,
                             << "* Provide waterproof decorations and guest seating" >>,
                             << "* Have indoor backup venue options ready" >> >> ELSE << >>)
                 \o (IF "wind" \in wc
                     THEN << << "* WINDY CONDITIONS - Secure all decorations and signage" >>,
                             << "* Use weighted table settings and centerpieces" >>,
                             << "* Consider wind-resistant setup options" >> >> ELSE << >>)
                 \o (IF "snow" \in wc
                     THEN << << "* SNOW POSSIBLE - Ensure heated indoor alternatives" >>,
                             << "* Plan for guest transportation and parking" >>,
                             << "* Consider postponement if severe conditions expected" >> >> ELSE << >>)
                 \o (IF "storm" \in wc
                     THEN << << "* SEVERE WEATHER ALERT - Consider event postponement" >>,
                             << "* Monitor weather alerts closely" >>,
                             << "* Have emergency plans in place" >> >> ELSE << >>)
                 \o (IF wc = {}
                     THEN << << "* FAVORABLE CONDITIONS expected for outdoor events" >>,
                             << "* Standard outdoor event preparations should suffice" >>,
                             << "* Monitor conditions 24 hours before event" >> >> ELSE << >>)
                 \o << Blank,
                       << "GENERAL RECOMMENDATIONS:" >>,
                       << "* Check weather updates 24-48 hours before your event" >>,
                       << "* Have backup plans regardless of forecast" >>,
                       << "* Consider guest comfort for temperature changes" >>,
                       << "* Keep emergency contact information accessible" >> >>
        ELSE << << "Based on your weather inquiry, here are my recommendations:" >>,
                << "* Check local weather services for real-time updates" >>,
                << "* Consider weather conditions when planning outdoor activities" >>,
                << "* Have backup plans for weather-sensitive events" >>,
                << "* Monitor weather alerts and warnings in your area" >>,
                Blank,
                << "For accurate, real-time weather data, I recommend:" >>,
                << "* Local meteorological services" >>,
                << "* Weather apps with live radar" >>,
                << "* Regional weather stations" >> >>)

FinancialResponse ==
    << << "FINANCIAL RECOMMENDATIONS" >>, Rule40,
       << "Based on your financial inquiry, here are my professional recommendations:" >>,
       << "* Diversify your investment portfolio across different asset classes" >>,
       << "* Consider your risk tolerance and investment timeline" >>,
       << "* Stay informed about market trends and economic indicators" >>,
       << "* Consult with a qualified financial advisor for personalized advice" >>,
       Blank,
       << "Important Disclaimer:" >>,
       << "This analysis is for informational purposes only and should not be" >>,
       << "considered as personalized financial advice. Please consult with" >>,
       << "a qualified financial professional before making investment decisions." >> >>

AcademicResponse ==
    << << "ACADEMIC CONCLUSIONS" >>, Rule40,
       << "Based on the academic literature review:" >>,
       << "* Further research is needed to fully understand the implications" >>,
       << "* Current studies provide valuable insights but have limitations" >>,
       << "* Interdisciplinary approaches may yield better results" >>,
       << "* Methodological considerations should be addressed in future studies" >>,
       Blank,
       << "Recommendations for Future Research:" >>,
       << "* Longitudinal studies to track changes over time" >>,
       << "* Larger sample sizes for statistical significance" >>,
       << "* Cross-cultural validation of findings" >>,
       << "* Integration of multiple research methodologies" >> >>

GeneralResponse(query, pages) ==
    << << "SYNTHESIS AND CONCLUSIONS" >>, Rule40 >>
    \o (IF pages # << >>
        THEN (IF Contains(lower(query), <<"h", "a", "r", "d", "w", "a", "r", "e">>)
              THEN << << "Hardware Requirements Analysis:" >>,
                      << "* Context processing is primarily implemented in biological neural networks" >>,
                      << "* Current research focuses on cognitive and computational models" >>,
                      << "* Hardware implementations may be relevant for AI systems but are not explicitly required" >>,
                      << "* Future developments might include specialized neural processing units" >>,
                      Blank >>
              ELSE << >>)
             \o << << "Key Conclusions:" >>,
                   << "* Context processing is fundamental to human cognition and affects multiple domains" >>,
                   << "* It involves complex neural circuitry including hippocampal-prefrontal connections" >>,
                   << "* Aging and neurological conditions can significantly impact context processing" >>,
                   << "* The field is active with ongoing research into mechanisms and applications" >> >>
        ELSE << << "I have processed your request to the best of my abilities." >>,
                << "While comprehensive analysis was not performed, I can provide" >>,
                << "general guidance and assistance based on my training." >> >>)

\* Response/Recommendations - varies by agent type
ResponseSection(task, query, search, pages, agent_name, ins) ==
    (CASE NameDomain(agent_name) = "customer"  -> CustomerResponse
       [] NameDomain(agent_name) = "weather"   -> WeatherResponse(task, search, ins)
       [] NameDomain(agent_name) = "financial" -> FinancialResponse
       [] NameDomain(agent_name) = "academic"  -> AcademicResponse
       [] OTHER                                -> GeneralResponse(query, pages))
    \o << Blank >>

\* Contact Information: the general branch adds no closing section
ContactSection(agent_name) ==
    CASE NameDomain(agent_name) = "customer" ->
            << << "CONTACT INFORMATION" >>, Rule40,
               << "If you need further assistance, please contact us:" >>,
               << "* Customer Service Department" >>,
               << "* Available 24/7 for your support needs" >>,
               << "* Reference this report for faster resolution" >>,
               Blank,
               << "Best regards," >>,
               << "Customer Service Team" >> >>
      [] NameDomain(agent_name) = "weather" ->
            << << "ADDITIONAL RESOURCES" >>, Rule40,
               << "For more detailed weather information:" >>,
               << "* National Weather Service" >>,
               << "* Local meteorological departments" >>,
               << "* Weather forecasting websites and apps" >>,
               Blank,
               << "Stay weather-aware and plan accordingly!" >> >>
      [] NameDomain(agent_name) = "financial" ->
            << << "NEXT STEPS" >>, Rule40,
               << "Consider these next steps:" >>,
               << "* Review your current financial portfolio" >>,
               << "* Consult with a certified financial planner" >>,
               << "* Stay updated on market developments" >>,
               << "* Consider your long-term financial goals" >>,
               Blank,
               << "Remember: Past performance does not guarantee future results." >> >>
      [] NameDomain(agent_name) = "academic" ->
            << << "RESEARCH LIMITATIONS" >>, Rule40,
               << "This literature review has the following limitations:" >>,
               << "* Limited to available academic sources" >>,
               << "* May not include the most recent publications" >>,
               << "* Subject to researcher interpretation" >>,
               << "* Requires peer review for validation" >>,
               Blank,
               << "For comprehensive research, consider consulting" >>,
               << "academic databases and peer-reviewed journals." >> >>
      [] OTHER -> << >>

Footer(agent_name, agent_type) ==
    << Blank, Rule80,
       << "Report generated by ", agent_name >>,
       << "Agent Type: ", upper(agent_type) >>,
       << "Timestamp: ", Clock >>,
       Rule80 >>

\* report_parts of generate_comprehensive_report
generate_comprehensive_report(task, query, search, pages, agent_name, agent_type, ins) ==
    HeaderBlock(task, query, search, agent_name, agent_type)
    \o SummarySection(task, query, search, pages, agent_name, ins)
    \o DetailedFindings(search, pages)
    \o ResponseSection(task, query, search, pages, agent_name, ins)
    \o ContactSection(agent_name)
    \o Footer(agent_name, agent_type)

----------------------------------------------------------------------------
(* Inputs: agents, task texts and the answers of the three collaborators   *)

Agent(n, t) == [name |-> n, type |-> t]

\* the agents the templates AGENT_TEMPLATES create, and two with a
\* user-given name (create_agent takes the name from the request)
ResearchAssistant  == Agent(<<"R", "e", "s", "e", "a", "r", "c", "h", " ", "A", "s", "s", "i", "s", "t", "a", "n", "t">>, <<"l", "l", "m">>)
CustomerService    == Agent(<<"C", "u", "s", "t", "o", "m", "e", "r", " ", "S", "e", "r", "v", "i", "c", "e">>, <<"s", "e", "q", "u", "e", "n", "t", "i", "a", "l">>)
WeatherAssistant   == Agent(<<"W", "e", "a", "t", "h", "e", "r", " ", "A", "s", "s", "i", "s", "t", "a", "n", "t">>, <<"l", "l", "m">>)
FinancialAdvisor   == Agent(<<"F", "i", "n", "a", "n", "c", "i", "a", "l", " ", "A", "d", "v", "i", "s", "o", "r">>, <<"p", "a", "r", "a", "l", "l", "e", "l">>)
AcademicResearcher == Agent(<<"A", "c", "a", "d", "e", "m", "i", "c", " ", "R", "e", "s", "e", "a", "r", "c", "h", "e", "r">>, <<"l", "o", "o", "p">>)
MyHelper           == Agent(<<"M", "y", " ", "H", "e", "l", "p", "e", "r">>, <<"l", "l", "m">>)
\* an agent of the customer-service template with a user-given name
WeatherDesk        == Agent(<<"W", "e", "a", "t", "h", "e", "r", " ", "D", "e", "s", "k">>, <<"s", "e", "q", "u", "e", "n", "t", "i", "a", "l">>)

Agents == {ResearchAssistant, CustomerService, WeatherAssistant, FinancialAdvisor,
           AcademicResearcher, MyHelper, WeatherDesk}

TaskWeatherParis == <<"W", "h", "a", "t", " ", "i", "s", " ", "t", "h", "e", " ", "w", "e", "a", "t", "h", "e", "r", " ", "f", "o", "r", "e", "c", "a", "s", "t", " ", "i", "n", " ", "P", "a", "r", "i", "s", "?", " ", "S", "e", "n", "d", " ", "r", "e", "s", "u", "l", "t", "s", " ", "t", "o", " ", "a", "l", "i", "c", "e", "@", "e", "x", "a", "m", "p", "l", "e", ".", "c", "o", "m", ".">>
TaskResearchML   == <<"R", "e", "s", "e", "a", "r", "c", "h", " ", "m", "a", "c", "h", "i", "n", "e", " ", "l", "e", "a", "r", "n", "i", "n", "g", " ", "a", "p", "p", "l", "i", "c", "a", "t", "i", "o", "n", "s", " ", "i", "n", " ", "h", "e", "a", "l", "t", "h", "c", "a", "r", "e">>
TaskEmpty        == << >>
TaskHello        == <<"H", "e", "l", "l", "o", " ", "t", "h", "e", "r", "e">>
TaskEmailVerb    == <<"R", "e", "s", "e", "a", "r", "c", "h", " ", "s", "o", "l", "a", "r", " ", "p", "o", "w", "e", "r", ".", " ", "E", "m", "a", "i", "l", " ", "t", "h", "e", " ", "r", "e", "s", "u", "l", "t", "s", " ", "t", "o", " ", "b", "o", "b", "@", "e", "x", "a", "m", "p", "l", "e", ".", "c", "o", "m">>
TaskUpperAddr    == <<"S", "e", "n", "d", " ", "s", "t", "o", "c", "k", " ", "m", "a", "r", "k", "e", "t", " ", "t", "r", "e", "n", "d", "s", " ", "t", "o", " ", "B", "o", "b", "@", "E", "x", "a", "m", "p", "l", "e", ".", "c", "o", "m">>
TaskGreeting     == <<"S", "e", "n", "d", " ", "g", "r", "e", "e", "t", "i", "n", "g", "s", " ", "t", "o", " ", "c", "a", "r", "o", "l", "@", "s", "i", "t", "e", ".", "o", "r", "g">>
TaskTwoAddr      == <<"R", "e", "s", "e", "a", "r", "c", "h", " ", "A", "I", " ", "f", "o", "r", " ", "d", "a", "v", "e", "@", "c", "o", "r", "p", ".", "i", "o", " ", "a", "n", "d", " ", "s", "e", "n", "d", " ", "r", "e", "s", "u", "l", "t", "s", " ", "t", "o", " ", "e", "r", "i", "n", "@", "c", "o", "r", "p", ".", "i", "o">>
TaskMixed        == <<"S", "t", "o", "c", "k", " ", "m", "a", "r", "k", "e", "t", " ", "w", "e", "a", "t", "h", "e", "r", " ", "f", "o", "r", "e", "c", "a", "s", "t", " ", "f", "o", "r", " ", "L", "o", "n", "d", "o", "n">>
TaskInvest       == <<"R", "e", "s", "e", "a", "r", "c", "h", " ", "i", "n", "v", "e", "s", "t", "m", "e", "n", "t", " ", "o", "p", "p", "o", "r", "t", "u", "n", "i", "t", "i", "e", "s", " ", "i", "n", " ", "r", "e", "n", "e", "w", "a", "b", "l", "e", " ", "e", "n", "e", "r", "g", "y", ".", " ", "S", "e", "n", "d", " ", "r", "e", "p", "o", "r", "t", " ", "t", "o", " ", "a", "l", "i", "c", "e", "@", "e", "x", "a", "m", "p", "l", "e", ".", "c", "o", "m", ".">>
TaskShort        == <<"H", "i", ".", " ", "r", "a", "i", "n">>
TaskHardware     == <<"F", "i", "n", "d", " ", "i", "n", "f", "o", "r", "m", "a", "t", "i", "o", "n", " ", "a", "b", "o", "u", "t", " ", "c", "o", "n", "t", "e", "x", "t", " ", "p", "r", "o", "c", "e", "s", "s", "i", "n", "g", " ", "h", "a", "r", "d", "w", "a", "r", "e", ".", " ", "S", "e", "n", "d", " ", "r", "e", "s", "u", "l", "t", " ", "t", "o", " ", "l", "a", "b", "@", "u", "n", "i", ".", "e", "d", "u">>
TaskNoAddr       == <<"S", "e", "n", "d", " ", "t", "h", "e", " ", "w", "e", "a", "t", "h", "e", "r", " ", "r", "e", "p", "o", "r", "t", " ", "t", "o", " ", "m", "y", " ", "b", "o", "s", "s">>
TaskConditions   == <<"M", "a", "r", "k", "e", "t", " ", "c", "o", "n", "d", "i", "t", "i", "o", "n", "s", " ", "i", "n", " ", "L", "o", "n", "d", "o", "n">>
TaskBlank        == <<" ", " ", " ">>
TaskLeak         == <<"W", "e", "a", "t", "h", "e", "r", " ", "i", "n", " ", "R", "o", "m", "e", " ", "s", "e", "n", "d", " ", "t", "o", " ", "b", "o", "b", "@", "e", "x", "a", "m", "p", "l", "e", ".", "c", "o", "m">>
TaskStock        == <<"s", "t", "o", "c", "k">>

Tasks == {TaskWeatherParis, TaskResearchML, TaskEmpty, TaskHello, TaskEmailVerb,
          TaskUpperAddr, TaskGreeting, TaskTwoAddr, TaskMixed, TaskInvest, TaskShort,
          TaskHardware, TaskNoAddr, TaskConditions, TaskBlank, TaskLeak, TaskStock}

\* the tasks that are run with every agent
AgentTasks == {TaskWeatherParis, TaskInvest, TaskHardware}

\* the executions that are checked: every task with the research assistant,
\* and the tasks of AgentTasks with every agent
Scenarios == (Tasks \X {ResearchAssistant}) \cup (AgentTasks \X Agents)

\* -- the search collaborator, firecrawl_web_search --

NumResults == 3

Result(t, u, d) == [title |-> t, url |-> u, content |-> Take(d, 1000), snippet |-> Take(d, 300)]

ResultParis  == Result(<<"P", "a", "r", "i", "s", " ", "w", "e", "a", "t", "h", "e", "r", " ", "t", "o", "d", "a", "y">>, <<"h", "t", "t", "p", "s", ":", "/", "/", "w", ".", "e", "x", "a", "m", "p", "l", "e", "/", "p", "a", "r", "i", "s">>, <<"R", "a", "i", "n", " ", "a", "n", "d", " ", "w", "i", "n", "d", " ", "i", "n", " ", "P", "a", "r", "i", "s">>)
ResultMarket == Result(<<"E", "n", "e", "r", "g", "y", " ", "m", "a", "r", "k", "e", "t", " ", "s", "t", "u", "d", "y">>, <<"h", "t", "t", "p", "s", ":", "/", "/", "d", "o", "i", ".", "e", "x", "a", "m", "p", "l", "e", "/", "m">>, <<"R", "e", "n", "e", "w", "a", "b", "l", "e", " ", "e", "n", "e", "r", "g", "y", " ", "m", "a", "r", "k", "e", "t">>)
\* an item of the response that carries no url: item.get('url', '')
ResultNoUrl  == Result(<<"N", "o", " ", "t", "i", "t", "l", "e">>, << >>, <<"C", "o", "n", "t", "e", "x", "t", " ", "n", "o", "t", "e", "s">>)

ResultPool == {ResultParis, ResultMarket, ResultNoUrl}

\* the longest result list a search answer carries in the model
MaxResults == 2

\* lists of distinct results of the pool, in any order
ResultLists ==
    {rs \in UNION {[1..n -> ResultPool] : n \in 0..MaxResults} :
        \A i, j \in DOMAIN rs : i # j => rs[i] # rs[j]}

SearchFailure(e) == [success |-> FALSE, error |-> e, results |-> << >>]
SearchSuccess(q, rs) == [success |-> TRUE, query |-> q, results |-> rs, count |-> Len(rs)]

\* the dictionaries firecrawl_web_search returns once it has awaited
\* client.post, lines 36-74
PostOutcomes(q) ==
    {SearchFailure(<< "Firecrawl API error: ", <<"5", "0", "0">> >>),
     SearchFailure(<< "Search failed: ", <<"t", "i", "m", "e", "o", "u", "t">> >>)}
    \cup {SearchSuccess(q, rs) : rs \in ResultLists}

\* the dictionaries firecrawl_web_search returns for a query: without an API
\* key it returns at once, lines 18-23
SearchOutcomes(q) ==
    {SearchFailure(<< "Firecrawl API key not configured" >>)} \cup PostOutcomes(q)

\* search_result before any search: {"success": False, "results": []}
NoSearch == [success |-> FALSE, results |-> << >>]

\* -- the fetch collaborator, firecrawl_scrape_content --

BodyParis ==
    <<"T", "e", "m", "p", "e", "r", "a", "t", "u", "r", "e", " ", "2", "1", " ", "d", "e", "g", "r", "e", "e", "s", " ", "C", "\n", "H", "e", "a", "v", "y", " ", "r", "a", "i", "n", " ", "e", "x", "p", "e", "c", "t", "e", "d", " ", "b", "y", " ", "n", "o", "o", "n", "\n", "S", "t", "r", "o", "n", "g", " ", "w", "i", "n", "d", " ", "f", "r", "o", "m", " ", "t", "h", "e", " ", "w", "e", "s", "t", "\n", "F", "o", "r", "e", "c", "a", "s", "t", " ", "f", "o", "r", " ", "t", "h", "e", " ", "w", "e", "e", "k", " ", "a", "h", "e", "a", "d", "\n", "R", "a", "i", "n", "\n", "S", "u", "n", "n", "y", " ", "s", "p", "e", "l", "l", "s", " ", "a", "n", "d", " ", "h", "i", "g", "h", " ", "p", "r", "e", "s", "s", "u", "r", "e">>

BodyMarket ==
    <<"S", "t", "o", "r", "m", " ", "w", "a", "r", "n", "i", "n", "g", " ", "f", "o", "r", " ", "t", "h", "e", " ", "c", "o", "a", "s", "t", "\n", "H", "e", "a", "v", "y", " ", "r", "a", "i", "n", " ", "e", "x", "p", "e", "c", "t", "e", "d", " ", "b", "y", " ", "n", "o", "o", "n", "\n", "P", "r", "i", "c", "e", " ", "r", "o", "s", "e", " ", "5", "%", " ", "a", "s", " ", "t", "h", "e", " ", "m", "a", "r", "k", "e", "t", " ", "r", "e", "t", "u", "r", "n", " ", "g", "r", "e", "w", "\n", "I", "n", "v", "e", "s", "t", " ", "i", "n", " ", "a", " ", "s", "o", "l", "a", "r", " ", "e", "n", "e", "r", "g", "y", " ", "p", "o", "r", "t", "f", "o", "l", "i", "o", " ", "n", "o", "w", "\n", "\n", "T", "h", "e", " ", "f", "i", "n", "d", "i", "n", "g", "s", " ", "s", "h", "o", "w", " ", "t", "h", "a", "t", " ", "c", "o", "n", "t", "e", "x", "t", " ", "p", "r", "o", "c", "e", "s", "s", "i", "n", "g", " ", "h", "a", "r", "d", "w", "a", "r", "e", " ", "i", "m", "p", "r", "o", "v", "e", "s", " ", "r", "e", "c", "a", "l", "l", " ", "i", "n", " ", "a", " ", "s", "a", "m", "p", "l", "e", " ", "o", "f", " ", "o", "l", "d", "e", "r", " ", "a", "d", "u", "l", "t", "s", ",", " ", "a", " ", "s", "i", "g", "n", "i", "f", "i", "c", "a", "n", "t", " ", "r", "e", "s", "u", "l", "t", ".">>

Page(ok, body, t, a, d) ==
    [success |-> ok, content |-> body, title |-> t, author |-> a, publishDate |-> d]

PageFailed == Page(FALSE, << >>, << >>, << >>, << >>)

\* the page of a url when the fetch succeeds
PageOf(url) ==
    IF url = ResultParis.url THEN Page(TRUE, BodyParis, <<"P", "a", "r", "i", "s", " ", "w", "e", "a", "t", "h", "e", "r">>, <<"A", "n", "n">>, <<"2", "0", "2", "4", "-", "0", "5", "-", "0", "1">>)
    ELSE IF url = ResultMarket.url THEN Page(TRUE, BodyMarket, <<"M", "a", "r", "k", "e", "t", " ", "s", "t", "u", "d", "y">>, <<"B", "o", "b">>, << >>)
    ELSE Page(TRUE, << >>, << >>, << >>, << >>)

\* the answers of the fetch collaborator for a url
FetchOutcomes(url) == {PageFailed, PageOf(url)}

\* -- the inputs of analyze_content_for_insights taken on its own --

BodySupport ==
    <<"C", "o", "n", "t", "a", "c", "t", " ", "t", "h", "e", " ", "b", "i", "l", "l", "i", "n", "g", " ", "d", "e", "p", "a", "r", "t", "m", "e", "n", "t", " ", "b", "y", " ", "p", "h", "o", "n", "e", "\n", "O", "u", "r", " ", "r", "e", "f", "u", "n", "d", " ", "p", "o", "l", "i", "c", "y", " ", "c", "o", "v", "e", "r", "s", " ", "e", "x", "c", "h", "a", "n", "g", "e", " ", "w", "i", "t", "h", "i", "n", " ", "3", "0", " ", "d", "a", "y", "s", "\n", "C", "o", "n", "t", "a", "c", "t", " ", "t", "h", "e", " ", "b", "i", "l", "l", "i", "n", "g", " ", "d", "e", "p", "a", "r", "t", "m", "e", "n", "t", " ", "b", "y", " ", "p", "h", "o", "n", "e", "\n", " ", " ", " ", "\n", "T", "h", "a", "n", "k", " ", "y", "o", "u">>

PagePool == {PageFailed, PageOf(ResultParis.url), PageOf(ResultMarket.url),
             Page(TRUE, BodySupport, <<"S", "u", "p", "p", "o", "r", "t">>, << >>, << >>)}

\* a page with more than 5 distinct lines of one kind, one of them twice
BodyStorms ==
    <<"L", "i", "g", "h", "t", " ", "s", "n", "o", "w", " ", "i", "n", " ", "t", "h", "e", " ", "h", "i", "l", "l", "s", "\n", "S", "t", "o", "r", "m", " ", "w", "a", "r", "n", "i", "n", "g", " ", "f", "o", "r", " ", "t", "h", "e", " ", "c", "o", "a", "s", "t", "\n", "L", "i", "g", "h", "t", " ", "s", "n", "o", "w", " ", "i", "n", " ", "t", "h", "e", " ", "h", "i", "l", "l", "s", "\n", "H", "u", "m", "i", "d", "i", "t", "y", " ", "n", "e", "a", "r", " ", "8", "0", " ", "p", "e", "r", "c", "e", "n", "t", "\n", "H", "e", "a", "v", "y", " ", "r", "a", "i", "n", " ", "e", "x", "p", "e", "c", "t", "e", "d", " ", "b", "y", " ", "n", "o", "o", "n", "\n", "S", "t", "r", "o", "n", "g", " ", "w", "i", "n", "d", " ", "f", "r", "o", "m", " ", "t", "h", "e", " ", "w", "e", "s", "t", "\n", "C", "l", "o", "u", "d", "y", " ", "s", "k", "i", "e", "s", " ", "o", "v", "e", "r", " ", "t", "h", "e", " ", "c", "i", "t", "y">>

PageStorms == Page(TRUE, BodyStorms, <<"S", "t", "o", "r", "m", "s">>, << >>, << >>)

\* the longest list of fetched pages that is analysed on its own
MaxPages == 2

PageLists == UNION {[1..n -> PagePool] : n \in 0..MaxPages}

\* agent types: the types of the templates and two free-text types
AnalysisTypes == {ResearchAssistant.type, CustomerService.type, FinancialAdvisor.type,
                  AcademicResearcher.type, <<"c", "u", "s", "t", "o", "m", "e", "r", " ", "s", "u", "p", "p", "o", "r", "t">>, <<"W", "e", "a", "t", "h", "e", "r">>}

AnalysisTasks == {TaskWeatherParis, TaskInvest, TaskHardware, TaskHello}

\* the inputs of the calls: fetched pages, agent type and task text
AnalysisInputs ==
    (PageLists \X AnalysisTypes \X AnalysisTasks)
    \cup {<< << PageStorms >>, ResearchAssistant.type, TaskWeatherParis >>}

\* -- the delivery collaborator, send_email --

MailSuccess(to, subj) ==
    [success |-> TRUE, to |-> to, subject |-> subj, message |-> << "Email sent successfully" >>]
MailFailure(to, e) ==
    [success |-> FALSE, error |-> e, to |-> to]

\* the answers of send_email when it returns: the message was sent, the
\* credentials are not set (lines 27-32), the sending raised an error that
\* asks for an application-specific password (lines 61-67), or it raised
\* another error (lines 68-73)
send_email(to, subj, content) ==
    {MailSuccess(to, subj),
     MailFailure(to, << "SMTP credentials not configured" >>),
     MailFailure(to,
        << "Gmail requires an app-specific password. Please:\n1. Enable 2FA on Gmail\n2. Generate app-specific password\n3. Update SMTP_PASS in .env file" >>),
     MailFailure(to, << "Failed to send email: ", <<"c", "o", "n", "n", "e", "c", "t", "i", "o", "n", " ", "r", "e", "f", "u", "s", "e", "d">> >>)}

----------------------------------------------------------------------------
(* execute_task_with_tools as a state machine.  The steps are cut at the   *)
(* awaits of the collaborators.                                            *)

VARIABLES
    agent,             \* the agent the task runs with
    task_description,  \* the task text
    string_hashes,     \* the iteration orders of sets the process has shown
    pc,                \* position in execute_task_with_tools
    tools_used, research_results, scraped_content, email_results, steps,
    research_query, search_result,
    idx,               \* position of the loop over search_result['results']
    email_address, subject, content_insights, email_content,
    returned,          \* the dictionary returned to the caller, << >> before
    search_calls,      \* the calls the search collaborator received
    fetch_calls,       \* the urls the fetch collaborator received
    mail_calls,        \* the calls the delivery collaborator received
    stages,            \* the stages entered so far, in order
    user_agents,       \* the agents stored for each user
    agent_counter,     \* the number of agents created so far
    request,           \* the request an endpoint is serving, << >> when none
    http,              \* the answer the caller of the last request received
    exception,         \* the exception raised in the call under way, << >> when none
    suspended,         \* the executions waiting at an await while another request is served
    agents_store,      \* main.py: the agents by id
    executions_store   \* main.py: the executions stored, in order

vars == << agent, task_description, string_hashes, pc, tools_used, research_results,
           scraped_content, email_results, steps, research_query, search_result, idx,
           email_address, subject, content_insights, email_content, returned,
           search_calls, fetch_calls, mail_calls, stages,
           user_agents, agent_counter, request, http, exception, suspended,
           agents_store, executions_store >>

\* the state outside the call of execute_task_with_tools
outside == << user_agents, agent_counter, request, http, exception, suspended,
              agents_store, executions_store >>

locals == << email_address, subject, content_insights, email_content >>
inputs == << agent, task_description, string_hashes >>

\* the locals of a fresh call, lines 239-247
Fresh ==
    /\ pc = "start"
    /\ tools_used = << >>
    /\ research_results = << >>
    /\ scraped_content = << >>
    /\ email_results = << >>
    /\ steps = 0
    /\ research_query = task_description
    /\ search_result = NoSearch
    /\ idx = 0
    /\ email_address = << >>
    /\ subject = << >>
    /\ content_insights = EmptyInsights
    /\ email_content = << >>
    /\ returned = << >>
    /\ search_calls = << >>
    /\ fetch_calls = << >>
    /\ mail_calls = << >>
    /\ stages = << >>

\* execute_task_with_tools is called on its own: no endpoint is involved
NoService ==
    /\ user_agents = << >>
    /\ agent_counter = 0
    /\ request = << >>
    /\ http = << >>
    /\ exception = << >>
    /\ suspended = << >>
    /\ agents_store = {}
    /\ executions_store = << >>

Init ==
    /\ \E sc \in Scenarios : task_description = sc[1] /\ agent = sc[2]
    /\ string_hashes = {}
    /\ Fresh
    /\ NoService

\* Lines 249-358: decide whether to research, derive the query and call the
\* search collaborator.
ParseTask ==
    /\ pc = "start"
    /\ IF should_research(task_description)
       THEN /\ steps' = steps + 1
            /\ research_query' = derive_query(task_description)
            /\ search_calls' = Append(search_calls, << research_query', NumResults >>)
            /\ stages' = stages \o << "extract", "research" >>
            /\ pc' = "search"
       ELSE /\ stages' = stages \o << "extract" >>
            /\ pc' = "email"
            /\ UNCHANGED << steps, research_query, search_calls >>
    /\ UNCHANGED << outside, inputs, locals, tools_used, research_results, scraped_content,
                    email_results, search_result, idx, returned, fetch_calls, mail_calls >>

\* Lines 358-367: the search collaborator answers.  At the position "post"
\* the call has returned control to the event loop inside client.post: the
\* answer is one of those given after the request to the API.
SearchReturns ==
    /\ pc \in {"search", "post"}
    /\ \E r \in (IF pc = "post" THEN PostOutcomes(research_query)
                 ELSE SearchOutcomes(research_query)) :
        /\ search_result' = r
        /\ tools_used' = Append(tools_used, "web_search")
        /\ research_results' = Append(research_results, r)
        /\ IF r.success /\ r.results # << >>
           THEN /\ steps' = steps + 1
                /\ stages' = Append(stages, "scrape")
                /\ idx' = 1
                /\ pc' = "scrape"
           ELSE /\ pc' = "email"
                /\ UNCHANGED << steps, stages, idx >>
    /\ UNCHANGED << outside, inputs, locals, scraped_content, email_results, research_query,
                    returned, search_calls, fetch_calls, mail_calls >>

\* Lines 369-372: a result that carries a url is handed to the fetch
\* collaborator; the call waits for its answer.
ScrapeFetch ==
    /\ pc = "scrape"
    /\ idx <= Len(search_result.results)
    /\ Has(search_result.results[idx], "url")
    /\ fetch_calls' = Append(fetch_calls, search_result.results[idx].url)
    /\ pc' = "fetch"
    /\ UNCHANGED << outside, inputs, locals, tools_used, research_results, scraped_content,
                    email_results, steps, research_query, search_result, idx, returned,
                    search_calls, mail_calls, stages >>

\* A faulty variant of FetchReturns: a failed fetch ends the loop.
FetchReturnsStopsOnFailure ==
    /\ pc = "fetch"
    /\ \E content \in FetchOutcomes(search_result.results[idx].url) :
        /\ scraped_content' = Append(scraped_content, content)
        /\ idx' = IF content.success THEN idx + 1 ELSE Len(search_result.results) + 1
    /\ pc' = "scrape"
    /\ UNCHANGED << outside, inputs, locals, tools_used, research_results, email_results, steps,
                    research_query, search_result, returned, search_calls, fetch_calls,
                    mail_calls, stages >>

\* Lines 372-373: the fetch collaborator answers and the answer is appended
\* to scraped_content, whether it is a success or a failure.
FetchReturns ==
    /\ pc = "fetch"
    /\ \E content \in FetchOutcomes(search_result.results[idx].url) :
        scraped_content' = Append(scraped_content, content)
    /\ idx' = idx + 1
    /\ pc' = "scrape"
    /\ UNCHANGED << outside, inputs, locals, tools_used, research_results, email_results, steps,
                    research_query, search_result, returned, search_calls, fetch_calls,
                    mail_calls, stages >>

\* Lines 370-371: a result without a url is passed over.
ScrapeSkip ==
    /\ pc = "scrape"
    /\ idx <= Len(search_result.results)
    /\ ~Has(search_result.results[idx], "url")
    /\ idx' = idx + 1
    /\ UNCHANGED << outside, inputs, locals, pc, tools_used, research_results, scraped_content,
                    email_results, steps, research_query, search_result, returned,
                    search_calls, fetch_calls, mail_calls, stages >>

\* Lines 375-376: the loop is over.
ScrapeDone ==
    /\ pc = "scrape"
    /\ idx > Len(search_result.results)
    /\ tools_used' = Append(tools_used, "content_scraping")
    /\ pc' = "email"
    /\ UNCHANGED << outside, inputs, locals, research_results, scraped_content, email_results, steps,
                    research_query, search_result, idx, returned, search_calls, fetch_calls,
                    mail_calls, stages >>

\* A faulty variant of Subject: the query is used whenever a search was made.
SubjectOfAnySearch ==
    IF research_results # << >>
    THEN << "Comprehensive Research Report: ", research_query >>
    ELSE << "", agent.name, " - Task Completion Report" >>

\* Lines 385-389
Subject ==
    IF research_results # << >> /\ research_results[1].success
    THEN << "Comprehensive Research Report: ", research_query >>
    ELSE << "", agent.name, " - Task Completion Report" >>

\* Lines 379-411: a destination address was found: the insights are
\* analysed, the report is generated and the delivery collaborator is called.
\* The sets the analysis makes are iterated as the string hashes of the
\* process have them.
PrepareReport ==
    /\ pc = "email"
    /\ email_match(task_description) # << >>
    /\ email_address' = email_match(task_description)
    /\ steps' = steps + 1
    /\ subject' = Subject
    /\ \E analysis \in analyze_content_for_insights(scraped_content, agent.type,
                                research_query, task_description, string_hashes) :
           /\ content_insights' = analysis.insights
           /\ string_hashes' = analysis.shown
    /\ email_content' = generate_comprehensive_report(task_description, research_query,
                                search_result, scraped_content, agent.name, agent.type,
                                content_insights')
    /\ mail_calls' = Append(mail_calls,
                            [to |-> email_address', subject |-> subject', content |-> email_content'])
    /\ stages' = stages \o << "analyze", "synthesize", "dispatch" >>
    /\ pc' = "mail"
    /\ UNCHANGED << outside, agent, task_description, tools_used, research_results, scraped_content, email_results,
                    research_query, search_result, idx, returned, search_calls, fetch_calls >>

\* Lines 379-380: no destination address: nothing is analysed, generated or sent.
NoDestination ==
    /\ pc = "email"
    /\ email_match(task_description) = << >>
    /\ pc' = "respond"
    /\ UNCHANGED << outside, inputs, locals, tools_used, research_results, scraped_content,
                    email_results, steps, research_query, search_result, idx, returned,
                    search_calls, fetch_calls, mail_calls, stages >>

\* A faulty variant of MailReturns: a failed delivery is tried once more.
MailReturnsRetrying ==
    /\ pc = "mail"
    /\ \E email_result \in send_email(email_address, subject, email_content) :
        /\ email_results' = Append(email_results, email_result)
        /\ IF ~email_result.success /\ Len(mail_calls) < 2
           THEN /\ mail_calls' = Append(mail_calls, mail_calls[1])
                /\ UNCHANGED << pc, tools_used >>
           ELSE /\ tools_used' = Append(tools_used, "send_email")
                /\ pc' = "respond"
                /\ UNCHANGED mail_calls
    /\ UNCHANGED << outside, inputs, locals, research_results, scraped_content, steps, research_query,
                    search_result, idx, returned, search_calls, fetch_calls, stages >>

\* Lines 411-415: the delivery collaborator answers.
MailReturns ==
    /\ pc = "mail"
    /\ \E email_result \in send_email(email_address, subject, email_content) :
        email_results' = Append(email_results, email_result)
    /\ tools_used' = Append(tools_used, "send_email")
    /\ pc' = "respond"
    /\ UNCHANGED << outside, inputs, locals, research_results, scraped_content, steps, research_query,
                    search_result, idx, returned, search_calls, fetch_calls, mail_calls, stages >>

\* an exception of the built-in class ValueError
ValueError(message) == [type |-> "ValueError", detail |-> message, status_code |-> 0]

\* email_tool.py line 22: int(os.getenv('SMTP_PORT', '587')) stands before
\* the try of send_email; with SMTP_PORT=smtp it raises ValueError, and
\* execute_task_with_tools, which has no try, passes it on to its caller.
MailRaises ==
    /\ pc = "mail"
    /\ exception' = ValueError("invalid literal for int() with base 10: 'smtp'")
    /\ pc' = "raised"
    /\ UNCHANGED << inputs, locals, tools_used, research_results, scraped_content,
                    email_results, steps, research_query, search_result, idx, returned,
                    search_calls, fetch_calls, mail_calls, stages, user_agents,
                    agent_counter, request, http, suspended, agents_store, executions_store >>

\* Lines 417-444: response_parts
ResearchResponse ==
    IF research_results = << >> THEN << >>
    ELSE LET sr == research_results[1]
         IN  IF sr.success
             THEN << << "[OK] Research completed successfully! Found ", Dec(Len(sr.results)),
                        " relevant results about '", research_query, "'." >> >>
                  \o (IF scraped_content # << >>
                      THEN LET Ok(c) == c.success
                           IN  << << "[OK] Scraped content from ",
                                     Dec(Len(Filter(scraped_content, Ok))),
                                     " pages for comprehensive analysis." >> >>
                      ELSE << >>)
                  \o Concat([i \in 1..(IF Len(sr.results) < 2 THEN Len(sr.results) ELSE 2) |->
                                << << "\n", Dec(i), ". ", Get(sr.results[i], "title", <<"N", "o", " ", "t", "i", "t", "l", "e">>) >>,
                                   << "   ", Get(sr.results[i], "snippet", <<"N", "o", " ", "s", "u", "m", "m", "a", "r", "y">>) >> >>])
             ELSE << << "[X] Research failed: " >> \o Get(sr, "error", << "Unknown error" >>) >>

\* A faulty variant of MailResponse: the delivery is reported as sent
\* whatever send_email answered.
MailResponseAlwaysOk ==
    IF email_results = << >> THEN << >>
    ELSE << << "[OK] Comprehensive research report sent successfully to ", email_results[1].to, "!" >> >>

MailResponse ==
    IF email_results = << >> THEN << >>
    ELSE IF email_results[1].success
    THEN << << "[OK] Comprehensive research report sent successfully to ", email_results[1].to, "!" >> >>
    ELSE << << "[X] Email failed: " >> \o Get(email_results[1], "error", << "Unknown error" >>) >>

response_parts ==
    IF ResearchResponse \o MailResponse = << >>
    THEN << << "Task completed, but no specific actions were identified." >> >>
    ELSE ResearchResponse \o MailResponse

\* A faulty variant of Respond: after a failed delivery no record is returned.
RespondUnlessFailed ==
    /\ pc = "respond"
    /\ \A n \in DOMAIN email_results : email_results[n].success
    /\ returned' = [response |-> response_parts,
                    agent_type |-> agent.type,
                    tools_used |-> tools_used,
                    task_description |-> task_description,
                    context |-> [research_results |-> research_results,
                                 scraped_content |-> scraped_content,
                                 email_results |-> email_results,
                                 steps_completed |-> steps]]
    /\ pc' = "done"
    /\ stages' = Append(stages, "record")
    /\ UNCHANGED << outside, inputs, locals, tools_used, research_results, scraped_content,
                    email_results, steps, research_query, search_result, idx,
                    search_calls, fetch_calls, mail_calls >>

\* Lines 446-457: the dictionary is returned.
Respond ==
    /\ pc = "respond"
    /\ returned' = [response |-> response_parts,
                    agent_type |-> agent.type,
                    tools_used |-> tools_used,
                    task_description |-> task_description,
                    context |-> [research_results |-> research_results,
                                 scraped_content |-> scraped_content,
                                 email_results |-> email_results,
                                 steps_completed |-> steps]]
    /\ stages' = Append(stages, "record")
    /\ pc' = "done"
    /\ UNCHANGED << outside, inputs, locals, tools_used, research_results, scraped_content,
                    email_results, steps, research_query, search_result, idx,
                    search_calls, fetch_calls, mail_calls >>

Next ==
    \/ ParseTask
    \/ SearchReturns
    \/ ScrapeFetch
    \/ FetchReturns
    \/ ScrapeSkip
    \/ ScrapeDone
    \/ PrepareReport
    \/ NoDestination
    \/ MailReturns
    \/ MailRaises
    \/ Respond

Spec == Init /\ [][Next]_vars

----------------------------------------------------------------------------
(* analyze_content_for_insights applied on its own to the inputs of        *)
(* AnalysisInputs                                                          *)

AnalyzeInit ==
    /\ \E in \in AnalysisInputs :
          /\ scraped_content = in[1]
          /\ agent = Agent(<<"A", "g", "e", "n", "t">>, in[2])
          /\ task_description = in[3]
    /\ string_hashes = {}
    /\ NoService
    /\ pc = "analysis"
    /\ tools_used = << >>
    /\ research_results = << >>
    /\ email_results = << >>
    /\ steps = 0
    /\ research_query = task_description
    /\ search_result = NoSearch
    /\ idx = 0
    /\ email_address = << >>
    /\ subject = << >>
    /\ content_insights = EmptyInsights
    /\ email_content = << >>
    /\ returned = << >>
    /\ search_calls = << >>
    /\ fetch_calls = << >>
    /\ mail_calls = << >>
    /\ stages = << >>

AnalyzeContent ==
    /\ pc = "analysis"
    /\ \E analysis \in analyze_content_for_insights(scraped_content, agent.type,
                                research_query, task_description, string_hashes) :
           /\ content_insights' = analysis.insights
           /\ string_hashes' = analysis.shown
    /\ pc' = "analysed"
    /\ UNCHANGED << outside, agent, task_description, tools_used, research_results, scraped_content, email_results,
                    steps, research_query, search_result, idx, email_address, subject,
                    email_content, returned, search_calls, fetch_calls, mail_calls, stages >>

\* A second call on the same inputs; its result is kept in returned.  The
\* call is made by the same process or, after a restart of the service, by a
\* process that has drawn its string hashes anew.
AnalyzeAgain ==
    /\ pc = "analysed"
    /\ \E known \in {string_hashes, {}} :
       \E analysis \in analyze_content_for_insights(scraped_content, agent.type,
                            research_query, task_description, known) :
           /\ returned' = analysis.insights
           /\ string_hashes' = analysis.shown
    /\ pc' = "analysed twice"
    /\ UNCHANGED << outside, agent, task_description, locals, tools_used, research_results, scraped_content,
                    email_results, steps, research_query, search_result, idx,
                    search_calls, fetch_calls, mail_calls, stages >>

AnalyzeNext ==
    \/ AnalyzeContent
    \/ AnalyzeAgain

AnalyzeSpec == AnalyzeInit /\ [][AnalyzeNext]_vars

----------------------------------------------------------------------------
(* The endpoints of simple_adk_service.py.  A request is served in one     *)
(* step, except /agents/execute, which awaits execute_task_with_tools.     *)

\* AGENT_TEMPLATES, lines 73-119: the agent a template gives when the request
\* carries no name
TemplateIds ==
    {"research-assistant", "customer-service", "weather-assistant",
     "financial-advisor", "academic-researcher"}

TemplateAgent(template_id) ==
    CASE template_id = "research-assistant"  -> ResearchAssistant
      [] template_id = "customer-service"    -> CustomerService
      [] template_id = "weather-assistant"   -> WeatherAssistant
      [] template_id = "financial-advisor"   -> FinancialAdvisor
      [] template_id = "academic-researcher" -> AcademicResearcher

\* -- the requests --

Users == {"u1", "u2"}

\* "" stands for a field the request does not carry
RequestUsers     == Users \cup {""}
RequestTemplates == {"customer-service", "no-such-template", ""}
RequestNames     == {<< >>, WeatherDesk.name}

\* the largest number of agents created
MaxAgents == 1

\* the agent ids of the requests: f"{template_id}_{agent_counter}"
AgentId(template_id, n) == << template_id, "_", n >>
RequestIds == {AgentId("customer-service", n) : n \in 1..MaxAgents} \cup {<< >>}

\* the task texts of the requests to /agents/execute
ServiceTasks == {TaskStock, TaskGreeting, TaskHello, TaskEmpty}

\* the largest number of calls of execute_task_with_tools under way
MaxCalls == 2

\* -- exceptions and answers --

HTTPException(status_code, detail) ==
    [type |-> "HTTPException", status_code |-> status_code, detail |-> detail]

\* str(e).  An HTTPException is made with keyword arguments only: its text
\* is "<status_code>: <detail>" where the library defines __str__ for it and
\* empty where it does not.
str(e) ==
    IF e.type = "HTTPException"
    THEN {<< >>, Dec(e.status_code) \o << ": ", e.detail >>}
    ELSE {<< e.detail >>}

\* what the caller receives when an endpoint raises HTTPException
Rejected(status_code, detail) == [status |-> status_code, detail |-> detail, data |-> << >>]

\* what the caller receives when an endpoint returns
Answered(data) == [status |-> 200, detail |-> << >>, data |-> data]

\* A faulty variant of Caught: the failure is swallowed and the request is
\* answered as a success.
CaughtAndSwallowed(e) == {Answered([status |-> "completed"])}

\* except Exception as e: raise HTTPException(status_code=500, detail=str(e)),
\* the handler that closes every endpoint
Caught(e) == {Rejected(500, d) : d \in str(e)}

\* raise e inside the try of an endpoint: the handler at its end catches it
Raise(e) ==
    /\ exception' = e
    /\ http' \in Caught(e)

\* return data from an endpoint
Return(data) ==
    /\ exception' = << >>
    /\ http' = Answered(data)

\* the agent of the list with the id, << >> when there is none
Lookup(agent_list, agent_id) ==
    LET at == {n \in DOMAIN agent_list : agent_list[n].id = agent_id}
    IN  IF at = {} THEN << >> ELSE agent_list[Min(at)]

\* for uid, agent_list in user_agents.items(): the agent with the id, of any user
LookupAll(agent_id) ==
    LET owners == {u \in Users : Lookup(user_agents[u], agent_id) # << >>}
    IN  IF owners = {} THEN << >> ELSE Lookup(user_agents[CHOOSE u \in owners : TRUE], agent_id)

\* user_agent_list.pop(i) for the first agent with the id
Without(agent_list, agent_id) ==
    LET at == Min({n \in DOMAIN agent_list : agent_list[n].id = agent_id})
    IN  SubSeq(agent_list, 1, at - 1) \o SubSeq(agent_list, at + 1, Len(agent_list))

\* no call of execute_task_with_tools is under way
NoCall ==
    /\ agent = << >>
    /\ task_description = << >>
    /\ pc = "idle"
    /\ tools_used = << >>
    /\ research_results = << >>
    /\ scraped_content = << >>
    /\ email_results = << >>
    /\ steps = 0
    /\ research_query = << >>
    /\ search_result = NoSearch
    /\ idx = 0
    /\ email_address = << >>
    /\ subject = << >>
    /\ content_insights = EmptyInsights
    /\ email_content = << >>
    /\ returned = << >>
    /\ search_calls = << >>
    /\ fetch_calls = << >>
    /\ mail_calls = << >>
    /\ stages = << >>

\* the locals of execute_task_with_tools, all but its position
CallLocals ==
    << tools_used, research_results, scraped_content, email_results, steps, research_query,
       search_result, idx, email_address, subject, content_insights, email_content,
       returned, search_calls, fetch_calls, mail_calls, stages >>

\* the call of execute_task_with_tools(a, t) begins, lines 236-247
Begin(a, t) ==
    /\ agent' = a
    /\ task_description' = t
    /\ pc' = "start"
    /\ tools_used' = << >>
    /\ research_results' = << >>
    /\ scraped_content' = << >>
    /\ email_results' = << >>
    /\ steps' = 0
    /\ research_query' = t
    /\ search_result' = NoSearch
    /\ idx' = 0
    /\ email_address' = << >>
    /\ subject' = << >>
    /\ content_insights' = EmptyInsights
    /\ email_content' = << >>
    /\ returned' = << >>
    /\ search_calls' = << >>
    /\ fetch_calls' = << >>
    /\ mail_calls' = << >>
    /\ stages' = << >>

\* the call is over and its locals are gone
End ==
    /\ agent' = << >>
    /\ task_description' = << >>
    /\ pc' = "idle"
    /\ tools_used' = << >>
    /\ research_results' = << >>
    /\ scraped_content' = << >>
    /\ email_results' = << >>
    /\ steps' = 0
    /\ research_query' = << >>
    /\ search_result' = NoSearch
    /\ idx' = 0
    /\ email_address' = << >>
    /\ subject' = << >>
    /\ content_insights' = EmptyInsights
    /\ email_content' = << >>
    /\ returned' = << >>
    /\ search_calls' = << >>
    /\ fetch_calls' = << >>
    /\ mail_calls' = << >>
    /\ stages' = << >>

ServiceInit ==
    /\ NoCall
    /\ string_hashes = {}
    /\ user_agents = [u \in Users |-> << >>]
    /\ agent_counter = 0
    /\ request = << >>
    /\ http = << >>
    /\ exception = << >>
    /\ suspended = << >>
    /\ agents_store = {}
    /\ executions_store = << >>

\* POST /agents, lines 165-212
create_agent ==
    /\ pc = "idle"
    /\ \E template_id \in RequestTemplates, user_id \in RequestUsers, name \in RequestNames :
        IF template_id \notin TemplateIds
        THEN /\ Raise(HTTPException(400, "Invalid template ID"))
             /\ UNCHANGED << user_agents, agent_counter >>
        ELSE IF user_id = ""
        THEN /\ Raise(HTTPException(400, "User ID is required"))
             /\ UNCHANGED << user_agents, agent_counter >>
        ELSE /\ agent_counter < MaxAgents
             /\ agent_counter' = agent_counter + 1
             /\ LET a == [id     |-> AgentId(template_id, agent_counter'),
                          name   |-> IF name = << >> THEN TemplateAgent(template_id).name
                                     ELSE name,
                          type   |-> TemplateAgent(template_id).type,
                          userId |-> user_id]
                IN  /\ user_agents' = [user_agents EXCEPT ![user_id] = Append(@, a)]
                    /\ Return(a)
    /\ UNCHANGED << inputs, pc, CallLocals, request, suspended, agents_store,
                    executions_store >>

\* DELETE /agents/{agent_id}, lines 214-234
delete_agent ==
    /\ pc = "idle"
    /\ \E agent_id \in RequestIds \ {<< >>}, userId \in Users :
        IF Lookup(user_agents[userId], agent_id) # << >>
        THEN /\ user_agents' = [user_agents EXCEPT ![userId] = Without(@, agent_id)]
             /\ Return(<< "Agent ", agent_id, " deleted successfully" >>)
        ELSE /\ Raise(HTTPException(404, "Agent not found"))
             /\ UNCHANGED user_agents
    /\ UNCHANGED << inputs, pc, CallLocals, agent_counter, request, suspended,
                    agents_store, executions_store >>

\* GET /agents/{agent_id}, lines 1120-1137
get_agent ==
    /\ pc = "idle"
    /\ \E agent_id \in RequestIds \ {<< >>}, userId \in Users :
        IF Lookup(user_agents[userId], agent_id) # << >>
        THEN Return(Lookup(user_agents[userId], agent_id))
        ELSE Raise(HTTPException(404, "Agent not found"))
    /\ UNCHANGED << inputs, pc, CallLocals, user_agents, agent_counter, request,
                    suspended, agents_store, executions_store >>

\* POST /agents/{agent_id}/execute, lines 1073-1118: the mock execution
execute_agent_specific ==
    /\ pc = "idle"
    /\ \E agent_id \in RequestIds \ {<< >>}, user_id \in RequestUsers :
        IF user_id = ""
        THEN Raise(HTTPException(400, "User ID is required"))
        ELSE IF Lookup(user_agents[user_id], agent_id) = << >>
        THEN Raise(HTTPException(404, "Agent not found"))
        ELSE Return([agent_id |-> agent_id, status |-> "completed",
                               agent_type |-> Lookup(user_agents[user_id], agent_id).type])
    /\ UNCHANGED << inputs, pc, CallLocals, user_agents, agent_counter, request,
                    suspended, agents_store, executions_store >>

\* POST /agents/execute, lines 1013-1043: the request is checked, the agent
\* is looked up and execute_task_with_tools is awaited
execute_agent_general ==
    /\ pc = "idle"
    /\ Len(suspended) < MaxCalls
    /\ \E agent_id \in RequestIds, task \in ServiceTasks :
        IF agent_id = << >>
        THEN /\ Raise(HTTPException(400, "Agent ID is required"))
             /\ UNCHANGED << inputs, pc, CallLocals, request >>
        ELSE IF task = << >>
        THEN /\ Raise(HTTPException(400, "Task description is required"))
             /\ UNCHANGED << inputs, pc, CallLocals, request >>
        ELSE IF LookupAll(agent_id) = << >>
        THEN /\ Raise(HTTPException(404, "Agent not found"))
             /\ UNCHANGED << inputs, pc, CallLocals, request >>
        ELSE /\ request' = [agentId |-> agent_id, taskDescription |-> task]
             /\ http' = << >>
             /\ exception' = << >>
             /\ Begin(Agent(LookupAll(agent_id).name, LookupAll(agent_id).type), task)
             /\ UNCHANGED string_hashes
    /\ UNCHANGED << user_agents, agent_counter, suspended, agents_store, executions_store >>

\* Lines 1044-1066: execute_task_with_tools returned; the execution result
\* is answered.  totalCost is counted in thousandths of a dollar.
ExecutionCompleted ==
    /\ pc = "done"
    /\ request # << >>
    /\ Return([agentId    |-> request.agentId,
                         status     |-> "completed",
                         steps      |-> returned.context.steps_completed,
                         totalCost  |-> Len(returned.tools_used) * 5,
                         tokensUsed |-> Len(request.taskDescription) * 2,
                         result     |-> returned])
    /\ request' = << >>
    /\ End
    /\ UNCHANGED << string_hashes, user_agents, agent_counter, suspended, agents_store,
                    executions_store >>

\* Lines 1069-1071: the exception of execute_task_with_tools is caught
ExecutionFailed ==
    /\ pc = "raised"
    /\ request # << >>
    /\ http' \in Caught(exception)
    /\ request' = << >>
    /\ End
    /\ UNCHANGED << string_hashes, user_agents, agent_counter, exception, suspended,
                    agents_store, executions_store >>

\* the locals of the call that runs
Execution ==
    [agent |-> agent, task_description |-> task_description, pc |-> pc,
     tools_used |-> tools_used, research_results |-> research_results,
     scraped_content |-> scraped_content, email_results |-> email_results,
     steps |-> steps, research_query |-> research_query, search_result |-> search_result,
     idx |-> idx, email_address |-> email_address, subject |-> subject,
     content_insights |-> content_insights, email_content |-> email_content,
     returned |-> returned, search_calls |-> search_calls, fetch_calls |-> fetch_calls,
     mail_calls |-> mail_calls, stages |-> stages, exception |-> exception]

\* the positions at which a call returns control to the event loop: inside
\* client.post of firecrawl_web_search ("search" before, "post" after control
\* was returned) and inside firecrawl_scrape_content.  send_email awaits
\* nothing (email_tool.py lines 8-73, smtplib), so the call keeps control
\* while the report is delivered.
Awaits == {"search", "post", "fetch"}

\* the locals of the call that runs, as they wait at its await
Parked == [Execution EXCEPT !.pc = IF pc = "search" THEN "post" ELSE pc]

\* the sequence s without its n-th element
Left(s, n) == SubSeq(s, 1, n - 1) \o SubSeq(s, n + 1, Len(s))

\* the locals of the call e are those of the call that runs
Resume(e) ==
    /\ agent' = e.agent
    /\ task_description' = e.task_description
    /\ pc' = e.pc
    /\ tools_used' = e.tools_used
    /\ research_results' = e.research_results
    /\ scraped_content' = e.scraped_content
    /\ email_results' = e.email_results
    /\ steps' = e.steps
    /\ research_query' = e.research_query
    /\ search_result' = e.search_result
    /\ idx' = e.idx
    /\ email_address' = e.email_address
    /\ subject' = e.subject
    /\ content_insights' = e.content_insights
    /\ email_content' = e.email_content
    /\ returned' = e.returned
    /\ search_calls' = e.search_calls
    /\ fetch_calls' = e.fetch_calls
    /\ mail_calls' = e.mail_calls
    /\ stages' = e.stages
    /\ exception' = e.exception

\* the result lists the search answers with in the runs of the service
ServiceResults == {<< >>, << ResultParis >>}

\* Lines 358-367, SearchReturns for the answers of the runs of the service
ServiceSearchReturns ==
    /\ SearchReturns
    /\ search_result'.results \in ServiceResults

\* Line 1043: execute_agent_general awaits execute_task_with_tools.  The call
\* waits for the search or for the fetch and returns control to the event
\* loop: the request is set aside with its call, and the loop is free to
\* serve any request, or to go on with a call whose collaborator answered.
ServiceSuspend ==
    /\ pc \in Awaits
    /\ suspended' = Append(suspended, [call |-> Parked, request |-> request])
    /\ End
    /\ request' = << >>
    /\ exception' = << >>
    /\ UNCHANGED << string_hashes, user_agents, agent_counter, http, agents_store,
                    executions_store >>

\* The collaborator of a call that waits answered, and the loop, which
\* serves no request, goes on with that call.
ServiceResume ==
    /\ pc = "idle"
    /\ \E n \in DOMAIN suspended :
        /\ Resume(suspended[n].call)
        /\ request' = suspended[n].request
        /\ suspended' = Left(suspended, n)
    /\ UNCHANGED << string_hashes, user_agents, agent_counter, http, agents_store,
                    executions_store >>

ServiceNext ==
    \/ create_agent
    \/ delete_agent
    \/ get_agent
    \/ execute_agent_specific
    \/ execute_agent_general
    \/ ServiceSuspend
    \/ ServiceResume
    \/ ParseTask
    \/ ServiceSearchReturns
    \/ ScrapeFetch
    \/ FetchReturns
    \/ ScrapeDone
    \/ PrepareReport
    \/ NoDestination
    \/ MailReturns
    \/ MailRaises
    \/ Respond
    \/ ExecutionCompleted
    \/ ExecutionFailed

ServiceSpec == ServiceInit /\ [][ServiceNext]_vars

----------------------------------------------------------------------------
(* Two calls of execute_task_with_tools in one process.  The event loop    *)
(* runs one of them at a time and changes over where the call that runs    *)
(* waits for the search or the fetch, or is over.                          *)

\* the locals of a call that has not yet run
NotYetRun(a, t) ==
    [agent |-> a, task_description |-> t, pc |-> "start",
     tools_used |-> << >>, research_results |-> << >>,
     scraped_content |-> << >>, email_results |-> << >>,
     steps |-> 0, research_query |-> t, search_result |-> NoSearch,
     idx |-> 0, email_address |-> << >>, subject |-> << >>,
     content_insights |-> EmptyInsights, email_content |-> << >>,
     returned |-> << >>, search_calls |-> << >>, fetch_calls |-> << >>,
     mail_calls |-> << >>, stages |-> << >>, exception |-> << >>]

\* the calls made together
PairFirst  == {<< TaskInvest, FinancialAdvisor >>}
PairSecond == {<< TaskGreeting, CustomerService >>, << TaskStock, FinancialAdvisor >>}

PairInit ==
    /\ \E sc \in PairFirst : task_description = sc[1] /\ agent = sc[2]
    /\ \E sc \in PairSecond : suspended = NotYetRun(sc[2], sc[1])
    /\ string_hashes = {}
    /\ Fresh
    /\ user_agents = << >>
    /\ agent_counter = 0
    /\ request = << >>
    /\ http = << >>
    /\ exception = << >>
    /\ agents_store = {}
    /\ executions_store = << >>

\* A faulty variant of Switch: tools_used is one list of the module, which
\* both calls append to.
SwitchSharingTools ==
    /\ pc \in Awaits \cup {"done", "raised"}
    /\ suspended.pc \notin {"done", "raised"}
    /\ suspended' = Parked
    /\ agent' = suspended.agent
    /\ task_description' = suspended.task_description
    /\ pc' = suspended.pc
    /\ research_results' = suspended.research_results
    /\ scraped_content' = suspended.scraped_content
    /\ email_results' = suspended.email_results
    /\ steps' = suspended.steps
    /\ research_query' = suspended.research_query
    /\ search_result' = suspended.search_result
    /\ idx' = suspended.idx
    /\ email_address' = suspended.email_address
    /\ subject' = suspended.subject
    /\ content_insights' = suspended.content_insights
    /\ email_content' = suspended.email_content
    /\ returned' = suspended.returned
    /\ search_calls' = suspended.search_calls
    /\ fetch_calls' = suspended.fetch_calls
    /\ mail_calls' = suspended.mail_calls
    /\ stages' = suspended.stages
    /\ exception' = suspended.exception
    /\ UNCHANGED << tools_used, string_hashes, user_agents, agent_counter, request, http,
                    agents_store, executions_store >>

\* The call that runs waits at an await, or is over, and the event loop
\* goes on with the other call: each call has its own locals (lines 236-247
\* of execute_task_with_tools; execute_agent_general awaits it at line 1043).
Switch ==
    /\ pc \in Awaits \cup {"done", "raised"}
    /\ suspended.pc \notin {"done", "raised"}
    /\ suspended' = Parked
    /\ agent' = suspended.agent
    /\ task_description' = suspended.task_description
    /\ pc' = suspended.pc
    /\ tools_used' = suspended.tools_used
    /\ research_results' = suspended.research_results
    /\ scraped_content' = suspended.scraped_content
    /\ email_results' = suspended.email_results
    /\ steps' = suspended.steps
    /\ research_query' = suspended.research_query
    /\ search_result' = suspended.search_result
    /\ idx' = suspended.idx
    /\ email_address' = suspended.email_address
    /\ subject' = suspended.subject
    /\ content_insights' = suspended.content_insights
    /\ email_content' = suspended.email_content
    /\ returned' = suspended.returned
    /\ search_calls' = suspended.search_calls
    /\ fetch_calls' = suspended.fetch_calls
    /\ mail_calls' = suspended.mail_calls
    /\ stages' = suspended.stages
    /\ exception' = suspended.exception
    /\ UNCHANGED << string_hashes, user_agents, agent_counter, request, http, agents_store,
                    executions_store >>

PairNext ==
    \/ Next
    \/ Switch

PairSpec == PairInit /\ [][PairNext]_vars

----------------------------------------------------------------------------
(* main.py: POST /agents, DELETE /agents/{agent_id} and POST                *)
(* /agents/execute.  execute_agent awaits run_adk_agent, which awaits       *)
(* execute_research_task of real_adk_agent.py; while it waits the event     *)
(* loop serves other requests.                                              *)

\* the agent ids, the names and the task texts of the requests
MainAgentIds == {"agent_1", "agent_2"}
MainNames    == {<< >>, <<"D", "e", "s", "k">>}
MainTasks    == {TaskWeatherParis, TaskHello}

\* the largest number of executions stored
MaxExecutions == 2

\* what the agent answers when its run succeeds
AgentAnswers == {<<"R", "e", "p", "o", "r", "t", ":", " ", "s", "u", "n", "n", "y", " ", "i", "n", " ", "P", "a", "r", "i", "s">>, <<"N", "o", " ", "r", "e", "s", "p", "o", "n", "s", "e", " ", "g", "e", "n", "e", "r", "a", "t", "e", "d">>}

\* the exceptions a run of the agent ends with: the model rejects the key,
\* or the session cannot be created
RunErrors == {<<"A", "P", "I", " ", "k", "e", "y", " ", "n", "o", "t", " ", "v", "a", "l", "i", "d">>, <<"s", "e", "s", "s", "i", "o", "n", " ", "s", "e", "r", "v", "i", "c", "e", " ", "u", "n", "a", "v", "a", "i", "l", "a", "b", "l", "e">>}

\* run_adk_agent line 374: from real_adk_agent import execute_research_task
ImportError == <<"N", "o", " ", "m", "o", "d", "u", "l", "e", " ", "n", "a", "m", "e", "d", " ", "'", "g", "o", "o", "g", "l", "e", "'">>

\* agents_store[agent_id], << >> when agent_id is not in agents_store
Stored(agent_id) ==
    LET hit == {a \in agents_store : a.id = agent_id}
    IN  IF hit = {} THEN << >> ELSE CHOOSE a \in hit : TRUE

\* main.py lines 75-76: the stores are empty; no request is in progress
MainInit ==
    /\ NoCall
    /\ string_hashes = {}
    /\ user_agents = << >>
    /\ agent_counter = 0
    /\ request = << >>
    /\ http = << >>
    /\ exception = << >>
    /\ suspended = << >>
    /\ agents_store = {}
    /\ executions_store = << >>

\* main.py lines 146-171, POST /agents: the id is made of the clock and of
\* uuid4 and is not the id of a stored agent
MainCreateAgent ==
    /\ pc = "idle"
    /\ \E agent_id \in MainAgentIds, user_id \in Users, name \in MainNames :
        /\ Stored(agent_id) = << >>
        /\ LET agent_data == [id     |-> agent_id,
                              name   |-> IF name = << >> THEN <<"R", "e", "s", "e", "a", "r", "c", "h", " ", "A", "s", "s", "i", "s", "t", "a", "n", "t">> ELSE name,
                              userId |-> user_id]
           IN  /\ agents_store' = agents_store \cup {agent_data}
               /\ http' = Answered(agent_data)
    /\ exception' = << >>
    /\ UNCHANGED << inputs, pc, CallLocals, user_agents, agent_counter, request, suspended,
                    executions_store >>

\* main.py lines 386-407, DELETE /agents/{agent_id}
MainDeleteAgent ==
    /\ pc = "idle"
    /\ \E agent_id \in MainAgentIds, userId \in Users :
        IF Stored(agent_id) = << >>
        THEN /\ http' = Rejected(404, "Agent not found")
             /\ exception' = HTTPException(404, "Agent not found")
             /\ UNCHANGED agents_store
        ELSE IF Stored(agent_id).userId # userId
        THEN /\ http' = Rejected(403, "Not authorized to delete this agent")
             /\ exception' = HTTPException(403, "Not authorized to delete this agent")
             /\ UNCHANGED agents_store
        ELSE /\ agents_store' = agents_store \ {Stored(agent_id)}
             /\ http' = Answered(<< "Agent '", Stored(agent_id).name, "' deleted successfully" >>)
             /\ exception' = << >>
    /\ UNCHANGED << inputs, pc, CallLocals, user_agents, agent_counter, request, suspended,
                    executions_store >>

\* main.py lines 201-229: the agent is looked up, outside the try, and
\* run_adk_agent is awaited
execute_agent ==
    /\ pc = "idle"
    /\ Len(executions_store) + Len(suspended) < MaxExecutions
    /\ \E agent_id \in MainAgentIds, task \in MainTasks :
        IF Stored(agent_id) = << >>
        THEN /\ http' = Rejected(404, "Agent not found")
             /\ exception' = HTTPException(404, "Agent not found")
             /\ UNCHANGED << pc, request >>
        ELSE /\ request' = [agentId |-> agent_id, taskDescription |-> task]
             /\ exception' = << >>
             /\ pc' = "run"
             /\ UNCHANGED http
    /\ UNCHANGED << inputs, CallLocals, user_agents, agent_counter, suspended, agents_store,
                    executions_store >>

\* main.py line 229: execute_agent waits for run_adk_agent, which waits
\* inside execute_research_task (real_adk_agent.py lines 68 and 78), and
\* control returns to the event loop: the request is set aside and the loop
\* is free to serve any request, or to go on with a request that waits.
MainSuspend ==
    /\ pc \in {"run", "running"}
    /\ suspended' = Append(suspended, [request |-> request])
    /\ request' = << >>
    /\ pc' = "idle"
    /\ exception' = << >>
    /\ UNCHANGED << inputs, CallLocals, user_agents, agent_counter, http, agents_store,
                    executions_store >>

\* The loop, which serves no request, goes on with a request that waits
\* inside execute_research_task.
MainResume ==
    /\ pc = "idle"
    /\ \E n \in DOMAIN suspended :
        /\ request' = suspended[n].request
        /\ suspended' = Left(suspended, n)
    /\ pc' = "running"
    /\ exception' = << >>
    /\ UNCHANGED << inputs, CallLocals, user_agents, agent_counter, http, agents_store,
                    executions_store >>

\* real_adk_agent.py lines 28-91: the run of the agent ends well and its
\* text is returned through run_adk_agent
ResearchTaskReturns ==
    /\ pc \in {"run", "running"}
    /\ returned' \in AgentAnswers
    /\ pc' = "ran"
    /\ UNCHANGED << inputs, tools_used, research_results, scraped_content, email_results,
                    steps, research_query, search_result, idx, email_address, subject,
                    content_insights, email_content, search_calls, fetch_calls, mail_calls,
                    stages, outside >>

\* real_adk_agent.py lines 93-95: an exception of the run is caught and its
\* text is returned as the result
ResearchTaskFails ==
    /\ pc \in {"run", "running"}
    /\ \E e \in RunErrors :
        /\ exception' = [type |-> "Exception", detail |-> e, status_code |-> 0]
        /\ returned' = <<"R", "e", "s", "e", "a", "r", "c", "h", " ", "t", "a", "s", "k", " ", "f", "a", "i", "l", "e", "d", ":", " ">> \o e
    /\ pc' = "ran"
    /\ UNCHANGED << inputs, tools_used, research_results, scraped_content, email_results,
                    steps, research_query, search_result, idx, email_address, subject,
                    content_insights, email_content, search_calls, fetch_calls, mail_calls,
                    stages, user_agents, agent_counter, request, http, suspended,
                    agents_store, executions_store >>

\* main.py lines 374 and 381-384: the import of the agent fails, before
\* anything is awaited; the exception is caught and a text is returned
RunAdkAgentFails ==
    /\ pc = "run"
    /\ exception' = [type |-> "ImportError", detail |-> ImportError, status_code |-> 0]
    /\ returned' = <<"R", "e", "a", "l", " ", "G", "o", "o", "g", "l", "e", " ", "A", "D", "K", " ", "a", "g", "e", "n", "t", " ", "e", "x", "e", "c", "u", "t", "i", "o", "n", " ", "f", "a", "i", "l", "e", "d", ":", " ">> \o ImportError
                      \o <<".", " ", "P", "l", "e", "a", "s", "e", " ", "c", "h", "e", "c", "k", " ", "t", "h", "e", " ", "l", "o", "g", "s", " ", "f", "o", "r", " ", "m", "o", "r", "e", " ", "d", "e", "t", "a", "i", "l", "s", ".">>
    /\ pc' = "ran"
    /\ UNCHANGED << inputs, tools_used, research_results, scraped_content, email_results,
                    steps, research_query, search_result, idx, email_address, subject,
                    content_insights, email_content, search_calls, fetch_calls, mail_calls,
                    stages, user_agents, agent_counter, request, http, suspended,
                    agents_store, executions_store >>

\* main.py lines 231-275: run_adk_agent returned; the execution is stored
\* with status completed and answered
ExecuteAgentCompletes ==
    /\ pc = "ran"
    /\ executions_store' = Append(executions_store,
                                  [agentId |-> request.agentId, status |-> "completed",
                                   finalResponse |-> returned])
    /\ http' = Answered([agentId |-> request.agentId, status |-> "completed",
                         result |-> returned])
    /\ request' = << >>
    /\ returned' = << >>
    /\ pc' = "idle"
    /\ UNCHANGED << inputs, tools_used, research_results, scraped_content, email_results,
                    steps, research_query, search_result, idx, email_address, subject,
                    content_insights, email_content, search_calls, fetch_calls, mail_calls,
                    stages, user_agents, agent_counter, exception, suspended, agents_store >>

\* main.py lines 277-299: the handler for an exception that leaves the try
\* of execute_agent: the execution is stored with status failed and the
\* caller is answered 500.  run_adk_agent catches every Exception, so no
\* step of MainNext leads to the position "raised" and the handler is not
\* among them.
ExecuteAgentFails ==
    /\ pc = "raised"
    /\ executions_store' = Append(executions_store,
                                  [agentId |-> request.agentId, status |-> "failed",
                                   finalResponse |-> << "Task execution failed: " >>
                                                        \o exception.detail])
    /\ http' = Rejected(500, << "Agent execution failed: " >> \o exception.detail)
    /\ request' = << >>
    /\ pc' = "idle"
    /\ UNCHANGED << inputs, CallLocals, user_agents, agent_counter, exception, suspended,
                    agents_store >>

MainNext ==
    \/ MainCreateAgent
    \/ MainDeleteAgent
    \/ execute_agent
    \/ MainSuspend
    \/ MainResume
    \/ ResearchTaskReturns
    \/ ResearchTaskFails
    \/ RunAdkAgentFails
    \/ ExecuteAgentCompletes

MainSpec == MainInit /\ [][MainNext]_vars

----------------------------------------------------------------------------
(* Properties                                                              *)

\* the execution has passed the dispatch step
AfterDispatch == pc \in {"mail", "respond", "done"}

\* a search was made and it failed
SearchFailed == research_results # << >> /\ ~research_results[1].success

\* a search was made and it succeeded
SearchSucceeded == research_results # << >> /\ research_results[1].success

\* the report holds the heading of the detailed findings
HasFindings(report) == \E n \in DOMAIN report : report[n] = << "DETAILED FINDINGS" >>

\* the report as generate_comprehensive_report renders it from the present values
RenderedReport ==
    generate_comprehensive_report(task_description, research_query, search_result,
                                  scraped_content, agent.name, agent.type, content_insights)

GenericSubject == << "", agent.name, " - Task Completion Report" >>
QuerySubject   == << "Comprehensive Research Report: ", research_query >>

\* the email-like substrings of each task text, and the destination address
\* the dispatch step detects in it (<< >> when it detects none)
AddressesOf   == [t \in Tasks |-> EmailLike(t)]
DestinationOf == [t \in Tasks |-> email_match(t)]

\* C1: a task text without an email-like substring never leads to a call of
\* send_email: no call is made, no delivery result is recorded, and the
\* returned record carries no email result, whatever search and fetch return.
C1_NoAddressNoDelivery ==
    AddressesOf[task_description] = << >> =>
        /\ mail_calls = << >>
        /\ email_results = << >>
        /\ pc # "mail"
        /\ returned # << >> => returned.context.email_results = << >>

\* a task that says "send ... to" without an address ran to its end, with a
\* successful search and fetched pages, and nothing was sent
C1_Witness ==
    /\ pc = "done"
    /\ AddressesOf[task_description] = << >>
    /\ Contains(lower(task_description), <<"s", "e", "n", "d">>)
    /\ SearchSucceeded
    /\ scraped_content # << >>
    /\ mail_calls = << >>

\* C2 (as stated): when the task text holds exactly one email-like substring,
\* the delivery collaborator is called with exactly that substring as the
\* destination, and no query handed to the search collaborator contains it.
C2_OneAddressIsDestination ==
    (pc = "done" /\ Len(AddressesOf[task_description]) = 1) =>
        /\ Len(mail_calls) = 1
        /\ mail_calls[1].to = AddressesOf[task_description][1]
        /\ \A n \in DOMAIN search_calls :
              ~Contains(search_calls[n][1], AddressesOf[task_description][1])

\* C3: when a destination address was detected, send_email is called exactly
\* once, with the rendered report as the body; it is not called again,
\* whether the call succeeded or failed, and one result is recorded.
C3_DeliveredOnce ==
    /\ Len(mail_calls) <= 1
    /\ Len(email_results) <= 1
    /\ (AfterDispatch /\ DestinationOf[task_description] # << >>) =>
          /\ Len(mail_calls) = 1
          /\ mail_calls[1].to = DestinationOf[task_description]
          /\ mail_calls[1].content = email_content
          /\ email_content # << >>
          /\ pc # "mail" => Len(email_results) = 1
    /\ pc = "mail" => mail_calls[1].content = RenderedReport

\* the delivery failed and the execution ended with the one call
C3_Witness ==
    /\ pc = "done"
    /\ Len(mail_calls) = 1
    /\ Len(email_results) = 1
    /\ ~email_results[1].success

NoRepeats(xs) == \A i, j \in DOMAIN xs : i # j => xs[i] # xs[j]

\* C4: each of the four buckets analyze_content_for_insights returns has at
\* most 5 entries and no entry twice.
C4_BucketsBounded ==
    pc = "analysed" =>
        \A b \in BucketNames :
            /\ Len(content_insights[b]) <= MaxInsights
            /\ NoRepeats(content_insights[b])

\* a bucket that collected more than 5 entries, one of them twice, was cut to 5
C4_Witness ==
    /\ pc = "analysed"
    /\ \E b \in BucketNames :
          /\ Len(raw_insights(scraped_content, agent.type, task_description)[b]) > MaxInsights
          /\ ~NoRepeats(raw_insights(scraped_content, agent.type, task_description)[b])
          /\ Len(content_insights[b]) = MaxInsights

\* C5 (as stated): after a failed search the report has no DETAILED FINDINGS,
\* the research results of the returned record are empty, and a non-empty
\* report was rendered.
C5_AsStated ==
    (pc = "done" /\ SearchFailed) =>
        /\ ~HasFindings(email_content)
        /\ returned.context.research_results = << >>
        /\ email_content # << >>

StageOrder ==
    << "extract", "research", "scrape", "analyze", "synthesize", "dispatch", "record" >>

StageRank(s) == CHOOSE n \in DOMAIN StageOrder : StageOrder[n] = s

\* the stages were entered in the fixed order, none twice
InStageOrder(st) == \A i, j \in DOMAIN st : i < j => StageRank(st[i]) < StageRank(st[j])

Entered(s) == \E n \in DOMAIN stages : stages[n] = s

\* C6 (as stated): the stages are entered in the fixed order, none twice, and
\* every execution enters Synthesize.
C6_AsStated ==
    /\ InStageOrder(stages)
    /\ pc = "done" => Entered("synthesize")

\* C7: when the search fails and a destination address was detected, nothing
\* is fetched, the report is rendered, send_email is called once, and the
\* subject is the generic one; the subject is made from the query exactly
\* when the search succeeded.
C7_FailedSearchStillDelivers ==
    (AfterDispatch /\ DestinationOf[task_description] # << >>) =>
        /\ Len(mail_calls) = 1
        /\ mail_calls[1].subject = QuerySubject <=> SearchSucceeded
        /\ mail_calls[1].subject = GenericSubject <=> ~SearchSucceeded
        /\ SearchFailed =>
              /\ fetch_calls = << >>
              /\ scraped_content = << >>
              /\ email_content # << >>
              /\ mail_calls[1].content = email_content
              /\ pc = "done" => returned # << >>

\* the search failed and the report went out under the generic subject
C7_Witness ==
    /\ pc = "done"
    /\ SearchFailed
    /\ Len(mail_calls) = 1
    /\ mail_calls[1].subject = GenericSubject
    /\ email_results[1].success

\* the urls of the results that carry one, in result order
RECURSIVE UrlsOf(_)
UrlsOf(results) ==
    IF results = << >> THEN << >>
    ELSE (IF Has(Head(results), "url") THEN << Head(results).url >> ELSE << >>)
         \o UrlsOf(Tail(results))

\* C8: when the search succeeds, the fetch collaborator is called once for
\* each result that carries a url, in result order, and each call leaves one
\* page record, whether it succeeded or failed; when the search failed or
\* was not made, nothing is fetched.
C8_OneFetchPerUrl ==
    /\ Len(fetch_calls) = Len(scraped_content) + (IF pc = "fetch" THEN 1 ELSE 0)
    /\ pc = "scrape" => fetch_calls = UrlsOf(SubSeq(search_result.results, 1, idx - 1))
    /\ pc = "fetch" => fetch_calls = UrlsOf(SubSeq(search_result.results, 1, idx))
    /\ (pc \in {"email", "mail", "respond", "done"} /\ SearchSucceeded) =>
          fetch_calls = UrlsOf(search_result.results)
    /\ ~SearchSucceeded => fetch_calls = << >>

\* two results with a url: the first fetch failed and the second was made
C8_Witness ==
    /\ pc = "done"
    /\ Len(fetch_calls) = 2
    /\ ~scraped_content[1].success
    /\ scraped_content[2].success

\* the lines the report prints under search result i after its summary
PrintedUnder(i) ==
    SubSeq(FindingLines(i, search_result.results[i], scraped_content), 4,
           Len(FindingLines(i, search_result.results[i], scraped_content)) - 1)

\* the lines of the page fetched from the url of search result i
OwnPageLines(i) ==
    LET own == {j \in DOMAIN fetch_calls : fetch_calls[j] = search_result.results[i].url}
    IN  IF own # {} /\ scraped_content[Min(own)].success
        THEN PageLines(scraped_content[Min(own)])
        ELSE << >>

\* C9 (as stated): the fetched pages keep the order of the search results,
\* and what the DETAILED FINDINGS section prints under a result comes from
\* the page fetched from the url of that result.
C9_OwnPageUnderResult ==
    (pc = "mail" /\ search_result.success) =>
        /\ fetch_calls = UrlsOf(search_result.results)
        /\ \A i \in DOMAIN search_result.results : PrintedUnder(i) = OwnPageLines(i)

AddrAlice == <<"a", "l", "i", "c", "e", "@", "e", "x", "a", "m", "p", "l", "e", ".", "c", "o", "m">>

\* C10: for "What is the weather forecast in Paris? Send results to
\* alice@example.com." the weather branch derives the query, the query handed
\* to the search contains "Paris", and send_email is called with
\* alice@example.com as the destination.
C10_ParisScenario ==
    task_description = TaskWeatherParis =>
        /\ QueryDomain(task_description) = "weather"
        /\ pc # "start" =>
              /\ Len(search_calls) = 1
              /\ search_calls[1][1] = research_query
              /\ Contains(research_query, <<"P", "a", "r", "i", "s">>)
        /\ AfterDispatch =>
              /\ Len(mail_calls) = 1
              /\ mail_calls[1].to = AddrAlice
              /\ email_address = AddrAlice

\* the Paris task was searched and the report was sent to alice@example.com
C10_Witness ==
    /\ task_description = TaskWeatherParis
    /\ pc = "done"
    /\ Contains(search_calls[1][1], <<"P", "a", "r", "i", "s">>)
    /\ mail_calls[1].to = AddrAlice
    /\ email_results[1].success

\* the branch of the query derivation each task text falls in
DomainOf == [t \in Tasks |-> QueryDomain(t)]

PhraseML == <<"m", "a", "c", "h", "i", "n", "e", " ", "l", "e", "a", "r", "n", "i", "n", "g", " ", "a", "p", "p", "l", "i", "c", "a", "t", "i", "o", "n", "s", " ", "i", "n", " ", "h", "e", "a", "l", "t", "h", "c", "a", "r", "e">>

\* C11: for "Research machine learning applications in healthcare" the
\* academic branch derives the query; the query is drawn from the phrase
\* "machine learning applications in healthcare" (it is "healthcare") and is
\* not the academic fallback; no destination address is detected and
\* send_email is never called.
C11_ResearchScenario ==
    task_description = TaskResearchML =>
        /\ DomainOf[task_description] = "academic"
        /\ DestinationOf[task_description] = << >>
        /\ pc # "start" =>
              /\ search_calls = << << research_query, NumResults >> >>
              /\ research_query = <<"h", "e", "a", "l", "t", "h", "c", "a", "r", "e">>
              /\ Contains(PhraseML, research_query)
              /\ research_query # AcademicFallback
        /\ mail_calls = << >>
        /\ email_results = << >>
        /\ pc # "mail"
        /\ returned # << >> => returned.context.email_results = << >>

\* the task was researched with success and the execution ended without a delivery
C11_Witness ==
    /\ task_description = TaskResearchML
    /\ pc = "done"
    /\ SearchSucceeded
    /\ search_calls[1][1] = <<"h", "e", "a", "l", "t", "h", "c", "a", "r", "e">>
    /\ returned.tools_used = << "web_search", "content_scraping" >>

\* the statement of a response that says nothing was done
NoActions == << << "Task completed, but no specific actions were identified." >> >>

\* C12 (as stated): for the empty task text the execution ends, the domain
\* is general and the query is the fallback "general research query".
C12_AsStated ==
    (task_description = TaskEmpty /\ pc = "done") =>
        /\ DomainOf[task_description] = "general"
        /\ research_query = GeneralFallback

\* C13 (as stated): two calls of analyze_content_for_insights on identical
\* inputs give, for each of the four buckets, the same set of entries, also
\* when more than 5 distinct entries were classified into the bucket.
C13_SameSets ==
    pc = "analysed twice" =>
        \A b \in BucketNames : Range(content_insights[b]) = Range(returned[b])

\* the keywords the claim names as the triggers of the weather form
ClaimedWeatherTriggers == << <<"w", "e", "a", "t", "h", "e", "r">>, <<"f", "o", "r", "e", "c", "a", "s", "t">>, <<"c", "o", "n", "d", "i", "t", "i", "o", "n", "s">> >>

\* the query has the weather form: "current weather forecast", with or
\* without a location after it
WeatherForm(q) == MatchAt(q, 1, WeatherFallback)

\* C14 (as stated): the query is derived by the fixed priority weather,
\* financial, academic, general: a task text with one of the keywords
\* weather, forecast, conditions gets the weather form of the query whatever
\* other keywords it holds; one with a financial keyword and none of these
\* gets the financial form even when academic keywords are present.
C14_DomainPriority ==
    search_calls # << >> =>
        /\ ContainsAny(lower(task_description), ClaimedWeatherTriggers) =>
              WeatherForm(search_calls[1][1])
        /\ (~ContainsAny(lower(task_description), ClaimedWeatherTriggers)
            /\ ContainsAny(lower(task_description), FinancialTriggers)) =>
              search_calls[1][1] = financial_query(clean_task(task_description))

\* C15 (as stated): for every task text the query is not empty after trimming.
C15_AsStated == pc = "done" => strip(research_query) # << >>

\* C16 (as stated): when a destination address is detected in the task text,
\* the query the analysis, the report and the subject work with is not the
\* unmodified task text and holds no part of the address.
C16_QueryStripped ==
    (AfterDispatch /\ DestinationOf[task_description] # << >>) =>
        /\ research_query # task_description
        /\ ~Contains(research_query, <<"@">>)

\* C17 (as stated): when the task text holds several email-like substrings,
\* the report goes to the first of them in text order and to no other.
C17_FirstAddress ==
    (pc = "done" /\ Len(AddressesOf[task_description]) > 1) =>
        /\ Len(mail_calls) = 1
        /\ \A n \in DOMAIN mail_calls : mail_calls[n].to = AddressesOf[task_description][1]

\* the statements of the response, named by their opening words
ResearchOk   == "[OK] Research completed successfully! Found "
ResearchFail == "[X] Research failed: "
DeliveryOk   == "[OK] Comprehensive research report sent successfully to "
DeliveryFail == "[X] Email failed: "

\* how many lines of the response open with the words w
Stated(response, w) == Cardinality({n \in DOMAIN response : response[n][1] = w})

\* C18: the response of every execution names the outcome of the research
\* and of the delivery: when research ran it holds exactly one of the
\* statements research succeeded / research failed, the one of the outcome;
\* when delivery was attempted, exactly one of delivery succeeded / delivery
\* failed, the one send_email answered; when delivery was not attempted,
\* neither; and the statements differ from each other.
C18_ResponseOutcomes ==
    /\ Cardinality({ResearchOk, ResearchFail, DeliveryOk, DeliveryFail, NoActions[1][1]}) = 5
    /\ pc = "done" =>
          /\ Stated(returned.response, ResearchOk)
                = (IF search_calls # << >> /\ search_result.success THEN 1 ELSE 0)
          /\ Stated(returned.response, ResearchFail)
                = (IF search_calls # << >> /\ ~search_result.success THEN 1 ELSE 0)
          /\ Stated(returned.response, DeliveryOk)
                = (IF mail_calls # << >> /\ email_results[1].success THEN 1 ELSE 0)
          /\ Stated(returned.response, DeliveryFail)
                = (IF mail_calls # << >> /\ ~email_results[1].success THEN 1 ELSE 0)
          /\ returned.response = NoActions <=> (search_calls = << >> /\ mail_calls = << >>)

\* the research succeeded, the delivery failed, and the response says both
C18_Witness ==
    /\ pc = "done"
    /\ search_result.success
    /\ mail_calls # << >>
    /\ ~email_results[1].success
    /\ Stated(returned.response, ResearchOk) = 1
    /\ Stated(returned.response, DeliveryFail) = 1

\* the tools whose collaborator was called at least once, in the order
\* search, fetch, delivery
ToolsInvoked ==
    (IF search_calls # << >> THEN << "web_search" >> ELSE << >>)
    \o (IF fetch_calls # << >> THEN << "content_scraping" >> ELSE << >>)
    \o (IF mail_calls # << >> THEN << "send_email" >> ELSE << >>)

\* C19 (as stated): tools_used of the returned record names a tool exactly
\* when its collaborator was called at least once, each name once, in the
\* order search, fetch, delivery.
C19_ToolsInvoked == pc = "done" => returned.tools_used = ToolsInvoked

\* C20 (as stated): steps_completed of the returned record is the number of
\* the stages research, fetch, delivery that made at least one call of their
\* collaborator.
C20_StepsCounted == pc = "done" => returned.context.steps_completed = Len(ToolsInvoked)

\* the headings of the sections of a report
SummaryHeads ==
    {"RESOLUTION SUMMARY", "WEATHER SUMMARY", "FINANCIAL ANALYSIS SUMMARY",
     "ACADEMIC RESEARCH SUMMARY", "EXECUTIVE SUMMARY"}
ResponseHeads ==
    {"CUSTOMER SERVICE RESPONSE", "WEATHER RECOMMENDATIONS", "FINANCIAL RECOMMENDATIONS",
     "ACADEMIC CONCLUSIONS", "SYNTHESIS AND CONCLUSIONS"}
ClosingHeads ==
    {"CONTACT INFORMATION", "ADDITIONAL RESOURCES", "NEXT STEPS", "RESEARCH LIMITATIONS"}
FindingsHeads == {"DETAILED FINDINGS"}

\* the lines of the report that are a heading of the set heads
HeadingsAt(report, heads) == {n \in DOMAIN report : report[n] \in {<< h >> : h \in heads}}

\* C21 (as stated): every report holds the header, one summary section, one
\* response section and one closing section of its domain, in that order,
\* for every domain; the detailed findings sit between the summary and the
\* response and are there exactly when the search succeeded.
C21_ReportSections ==
    pc = "mail" =>
        /\ email_content[1] = Rule80
        /\ Cardinality(HeadingsAt(email_content, SummaryHeads)) = 1
        /\ Cardinality(HeadingsAt(email_content, ResponseHeads)) = 1
        /\ Cardinality(HeadingsAt(email_content, ClosingHeads)) = 1
        /\ \A s \in HeadingsAt(email_content, SummaryHeads) :
           \A r \in HeadingsAt(email_content, ResponseHeads) :
           \A c \in HeadingsAt(email_content, ClosingHeads) :
              /\ 1 < s /\ s < r /\ r < c
              /\ \A f \in HeadingsAt(email_content, FindingsHeads) : s < f /\ f < r
        /\ Cardinality(HeadingsAt(email_content, FindingsHeads))
              = (IF search_result.success THEN 1 ELSE 0)

\* the domain a header title names
HeaderDomain(title) ==
    CASE title = "CUSTOMER SERVICE RESOLUTION REPORT" -> "customer"
      [] title = "WEATHER INFORMATION REPORT"         -> "weather"
      [] title = "FINANCIAL ANALYSIS REPORT"          -> "financial"
      [] title = "ACADEMIC RESEARCH REPORT"           -> "academic"
      [] OTHER                                        -> "general"

\* the domain a summary heading belongs to
SummaryDomain(heading) ==
    CASE heading = "RESOLUTION SUMMARY"         -> "customer"
      [] heading = "WEATHER SUMMARY"            -> "weather"
      [] heading = "FINANCIAL ANALYSIS SUMMARY" -> "financial"
      [] heading = "ACADEMIC RESEARCH SUMMARY"  -> "academic"
      [] OTHER                                  -> "general"

\* the domain a response heading belongs to
ResponseDomain(heading) ==
    CASE heading = "CUSTOMER SERVICE RESPONSE" -> "customer"
      [] heading = "WEATHER RECOMMENDATIONS"   -> "weather"
      [] heading = "FINANCIAL RECOMMENDATIONS" -> "financial"
      [] heading = "ACADEMIC CONCLUSIONS"      -> "academic"
      [] OTHER                                 -> "general"

\* C22 (as stated): within one report the header, the summary and the
\* response section are worded for the same domain, for every agent name and
\* agent type.
C22_OneDomainPerReport ==
    pc = "mail" =>
        /\ \A s \in HeadingsAt(email_content, SummaryHeads) :
              SummaryDomain(email_content[s][1]) = HeaderDomain(email_content[2][1])
        /\ \A r \in HeadingsAt(email_content, ResponseHeads) :
              ResponseDomain(email_content[r][1]) = HeaderDomain(email_content[2][1])

\* the keyword family the analysis applies, "general" when it applies none
AnalysisFamily(agent_type, task) ==
    IF AnalysisDomain(agent_type, task) = "none" THEN "general"
    ELSE AnalysisDomain(agent_type, task)

\* C23 (as stated): within one execution the branch that derives the query,
\* the keyword family of the analysis and the templates of the report belong
\* to the same domain.
C23_OneDomainPerExecution ==
    (pc = "mail" /\ search_calls # << >>) =>
        /\ AnalysisFamily(agent.type, task_description) = DomainOf[task_description]
        /\ NameDomain(agent.name) = DomainOf[task_description]

\* some collaborator answered with a failure
SomeFailure ==
    \/ SearchFailed
    \/ \E n \in DOMAIN scraped_content : ~scraped_content[n].success
    \/ \E n \in DOMAIN email_results : ~email_results[n].success

\* what the record says of a delivery that failed
FailedDeliveryRecorded ==
    \A n \in DOMAIN email_results :
        /\ email_results[n] \in send_email(mail_calls[n].to, mail_calls[n].subject,
                                            mail_calls[n].content)
        /\ (pc = "done" /\ ~email_results[n].success) =>
              /\ returned.context.email_results = email_results
              /\ returned.context.email_results[n].error # << >>
              /\ \E k \in DOMAIN returned.response :
                    returned.response[k] = << "[X] Email failed: " >> \o email_results[n].error

\* C24: a failure returned by the search, the fetch or the delivery never
\* ends the execution: after it the next step of the execution can be taken, up to
\* the return of the record to the caller (at the choice between a report
\* and none, the step without a report when no destination was found; with
\* a destination the step with the report has no other condition); the one
\* end without a record is
\* the exception send_email raises instead of returning, which no returned
\* failure brings about.  For a
\* failed delivery the returned record holds the answer of send_email as it
\* came, marked as failed with the error message unchanged, and the response
\* states the failure with that message.
C24_FailuresNotFatal ==
    /\ (SomeFailure /\ pc \notin {"done", "raised"}) =>
          \/ pc = "scrape" /\ ENABLED (ScrapeFetch \/ ScrapeSkip \/ ScrapeDone)
          \/ pc = "fetch" /\ ENABLED FetchReturns
          \/ pc = "email" /\ (email_match(task_description) = << >> => ENABLED NoDestination)
          \/ pc = "mail" /\ ENABLED MailReturns
          \/ pc = "respond" /\ ENABLED Respond
    /\ pc = "raised" =>
          /\ exception.type = "ValueError"
          /\ Len(mail_calls) = 1
          /\ email_results = << >>
    /\ pc = "done" => returned # << >>
    /\ FailedDeliveryRecorded

\* the search failed, then the delivery failed, and the record was returned
C24_Witness ==
    /\ pc = "done"
    /\ SearchFailed
    /\ email_results # << >>
    /\ ~email_results[1].success
    /\ returned.context.email_results[1].error = << "SMTP credentials not configured" >>

\* the condition keywords the claim names
ClaimedCondWords ==
    << <<"r", "a", "i", "n">>, <<"s", "n", "o", "w">>, <<"s", "u", "n", "n", "y">>, <<"c", "l", "o", "u", "d", "y">>, <<"s", "t", "o", "r", "m">>, <<"w", "i", "n", "d">>, <<"h", "u", "m", "i", "d", "i", "t", "y">> >>

\* the stripped lines of the fetched text
LinesOf(pages) ==
    LET units == split(all_text(pages), <<"\n">>)
    IN  [n \in DOMAIN units |-> strip(units[n])]

\* the line goes to specific_data: a temperature word and a digit
IsTemperatureData(line) == ContainsAny(lower(line), TempWords) /\ HasDigit(line)

\* C27 (as stated): in the weather analysis every line of at least 20
\* characters that holds one of the condition keywords and is not placed in
\* specific_data (no temperature word, or no digit) is placed in
\* key_findings, and stays there when the bucket is not cut; no line is
\* placed in more than one bucket.
C27_ConditionsAreKeyFindings ==
    (pc = "analysed" /\ AnalysisDomain(agent.type, task_description) = "weather"
                    /\ all_text(scraped_content) # << >>) =>
        LET lines == LinesOf(scraped_content)
            raw   == raw_insights(scraped_content, agent.type, task_description)
        IN  /\ \A n \in DOMAIN lines :
                  (/\ Len(lines[n]) >= 20
                   /\ ContainsAny(lower(lines[n]), ClaimedCondWords)
                   /\ ~IsTemperatureData(lines[n])) =>
                      /\ <<"C", "o", "n", "d", "i", "t", "i", "o", "n", "s", ":", " ">> \o Take(lines[n], 150) \in Range(raw["key_findings"])
                      /\ Len(Distinct(raw["key_findings"])) <= MaxInsights =>
                            <<"C", "o", "n", "d", "i", "t", "i", "o", "n", "s", ":", " ">> \o Take(lines[n], 150)
                                \in Range(content_insights["key_findings"])
            /\ Len(raw["key_findings"]) + Len(raw["specific_data"])
                  + Len(raw["recommendations"]) + Len(raw["summary"]) <= Len(lines)

\* the distinct non-blank entries of a list of classified entries
DistinctEntries(entries) == {x \in Range(entries) : strip(x) # << >>}

\* C28: the duplicates are removed before the list is cut: each bucket
\* returned holds exactly min(5, d) entries, d the number of distinct
\* non-blank entries classified into the bucket, and each of them is one of
\* those entries.
C28_DedupBeforeCut ==
    pc = "analysed" =>
        LET raw == raw_insights(scraped_content, agent.type, task_description)
        IN  \A b \in BucketNames :
                LET d == DistinctEntries(raw[b])
                IN  /\ Len(content_insights[b]) = Min({MaxInsights, Cardinality(d)})
                    /\ Range(content_insights[b]) \subseteq d

\* a bucket with at least 5 distinct entries and a repeat among the first 5
\* classified holds 5 entries
C28_Witness ==
    /\ pc = "analysed"
    /\ LET raw == raw_insights(scraped_content, agent.type, task_description)
       IN  \E b \in BucketNames :
               /\ Cardinality(DistinctEntries(raw[b])) >= MaxInsights
               /\ ~NoRepeats(Take(raw[b], MaxInsights))
               /\ Len(content_insights[b]) = MaxInsights

\* the tasks of the calls made together, and for each the query its call
\* hands to the search (<< >> when it makes no search)
PairTasks == {sc[1] : sc \in PairFirst \cup PairSecond}
QueryOf ==
    [t \in PairTasks \cup ServiceTasks |->
        IF should_research(t) THEN derive_query(t) ELSE << >>]

\* tools_used as the call records it from its own steps
ToolsAlone(e) ==
    (IF e.search_calls # << >> THEN << "web_search" >> ELSE << >>)
    \o (IF e.search_result.success /\ e.search_result.results # << >>
        THEN << "content_scraping" >> ELSE << >>)
    \o (IF e.email_results # << >> THEN << "send_email" >> ELSE << >>)

\* the record the call e returned is made of its own task, its own agent
\* and the answers the collaborators gave to its own calls
AloneRecord(e) ==
    /\ e.returned.task_description = e.task_description
    /\ e.returned.agent_type = e.agent.type
    /\ e.search_calls = (IF QueryOf[e.task_description] # << >>
                         THEN << << QueryOf[e.task_description], NumResults >> >>
                         ELSE << >>)
    /\ e.returned.context.research_results
          = (IF e.search_calls # << >> THEN << e.search_result >> ELSE << >>)
    /\ e.search_calls # << >> => e.search_result \in SearchOutcomes(QueryOf[e.task_description])
    /\ e.fetch_calls = (IF e.search_result.success THEN UrlsOf(e.search_result.results)
                        ELSE << >>)
    /\ e.returned.context.scraped_content = e.scraped_content
    /\ Len(e.scraped_content) = Len(e.fetch_calls)
    /\ \A n \in DOMAIN e.scraped_content :
          e.scraped_content[n] \in FetchOutcomes(e.fetch_calls[n])
    /\ Len(e.mail_calls) = (IF DestinationOf[e.task_description] # << >> THEN 1 ELSE 0)
    /\ \A n \in DOMAIN e.mail_calls :
          /\ e.mail_calls[n].to = DestinationOf[e.task_description]
          /\ e.mail_calls[n].content = e.email_content
    /\ e.returned.context.email_results = e.email_results
    /\ Len(e.email_results) = Len(e.mail_calls)
    /\ \A n \in DOMAIN e.email_results :
          e.email_results[n] \in send_email(e.mail_calls[n].to, e.mail_calls[n].subject,
                                            e.mail_calls[n].content)
    /\ e.returned.tools_used = ToolsAlone(e)
    /\ e.returned.context.steps_completed = Len(ToolsAlone(e))

\* the last request was rejected by the validation of its endpoint
RejectedByValidation == exception # << >> /\ exception.type = "HTTPException"

\* the call of execute_task_with_tools of the request that runs raised
PipelineRaised == exception # << >> /\ exception.type # "HTTPException"

\* each request set aside waits for the search or the fetch of its own
\* call, with its own task and its own query, and nothing was delivered,
\* returned or raised in it
ParkedIntact ==
    \A n \in DOMAIN suspended :
        LET e == suspended[n].call
        IN  /\ e.pc \in Awaits
            /\ e.task_description = suspended[n].request.taskDescription
            /\ e.search_calls = << << QueryOf[e.task_description], NumResults >> >>
            /\ e.pc = "post" => e.research_results = << >>
            /\ e.pc = "fetch" =>
                  /\ e.research_results = << e.search_result >>
                  /\ e.search_result \in PostOutcomes(QueryOf[e.task_description])
                  /\ Len(e.fetch_calls) = Len(e.scraped_content) + 1
            /\ e.returned = << >>
            /\ e.exception = << >>
            /\ e.mail_calls = << >>
            /\ e.email_results = << >>

\* C25: an exception that execute_task_with_tools does not catch ends the
\* task without a returned record; the caller of /agents/execute receives
\* the failure answer 500 with the text of the exception as its detail and
\* no execution result; an answer that carries a result with status
\* completed is given only when nothing was raised in its request.  No other
\* task is affected: a request that waits while another raises is left as
\* it was, and when it goes on it returns the record it returns when it
\* runs alone.
C25_UncaughtIsFailure ==
    /\ pc = "raised" => (PipelineRaised /\ returned = << >>)
    /\ (pc = "idle" /\ PipelineRaised) =>
          /\ http.status = 500
          /\ http.detail \in str(exception)
          /\ http.detail # << >>
          /\ http.data = << >>
          /\ request = << >>
    /\ (pc = "idle" /\ http # << >> /\ http.status = 200) => exception = << >>
    /\ ParkedIntact
    /\ pc = "done" =>
          /\ exception = << >>
          /\ AloneRecord(Execution)
          /\ returned.response = response_parts
          /\ returned.task_description = request.taskDescription

\* while one request waited for the answer of the search, send_email raised
\* for the port setting in another and its caller was answered 500 with the
\* text of the ValueError; the request that waited went on, fetched a page
\* and returned its record
C25_Witness ==
    /\ pc = "done"
    /\ http # << >>
    /\ http.status = 500
    /\ http.detail = << "invalid literal for int() with base 10: 'smtp'" >>
    /\ search_calls # << >>
    /\ fetch_calls # << >>
    /\ returned.context.scraped_content = scraped_content
    /\ scraped_content # << >>
    /\ returned.task_description = request.taskDescription

\* C29 (as stated): a request rejected by the validation of its endpoint
\* reaches the caller with the status code the validation raised: 400 for
\* an invalid template id or a missing user id, agent id or task
\* description, 404 for an agent that is not found.
C29_ValidationStatus ==
    (http # << >> /\ RejectedByValidation) => http.status = exception.status_code

\* C26: of two calls of execute_task_with_tools that take turns where one
\* of them waits for the search or the fetch, each returns the record
\* it returns when it runs alone with the same answers of the collaborators:
\* tools used, steps, research results, fetched pages, email results and
\* response are made of its own task and its own calls, also when the other
\* call raised.
C26_NoSharedState ==
    /\ pc = "done" =>
          /\ AloneRecord(Execution)
          /\ returned.response = response_parts
    /\ suspended.pc = "done" => AloneRecord(suspended)
    /\ suspended.pc = "raised" => suspended.returned = << >>

\* both calls searched, for different queries, one of them fetched a page
\* and had its report delivered, and both returned their record
C26_Witness ==
    /\ pc = "done"
    /\ suspended.pc = "done"
    /\ search_calls # << >>
    /\ suspended.search_calls # << >>
    /\ search_calls # suspended.search_calls
    /\ suspended.fetch_calls # << >>
    /\ suspended.email_results # << >>
    /\ suspended.email_results[1].success

\* the run of the agent of the last request failed
RunFailed == exception # << >> /\ exception.type # "HTTPException"

\* C30 (as stated): when the run of the agent fails, execute_agent stores
\* the execution with status failed and answers the caller 500; an
\* execution is stored with status completed only when the run succeeded.
C30_FailedRunIsFailed ==
    (pc = "idle" /\ RunFailed) =>
        /\ executions_store[Len(executions_store)].status = "failed"
        /\ http.status = 500

====
